---- MODULE Spec2Model ----
(***************************************************************************)
(* hop: the streaming directory push (cdn push).                           *)
(*                                                                         *)
(* uploadDirectoryOptimized builds the local inventory, then runs a        *)
(* pipeline of goroutines joined by three buffered channels:               *)
(*                                                                         *)
(*   remoteFileStreamer --remoteFiles--> skipChecker --uploadTasks-->      *)
(*        uploader x numWorkers --results--> collector --done--> caller    *)
(*                                 skipChecker --results-->                *)
(*                                                                         *)
(* Spec and LiveSpec run the pipeline over a flat remote root, with and    *)
(* without the deadline; TreeSpec runs it over a remote tree, so that the  *)
(* streamer recurses; RerunSpec runs the command a second time after a run *)
(* that uploaded every file.  SkipSpec applies the pure function           *)
(* shouldSkipUpload to every descriptor pair of a bounded set.             *)
(***************************************************************************)
EXTENDS Integers, Sequences, FiniteSets, Bags, TLC

(***************************************************************************)
(* Bounds of the model.  The three channel capacities are 100, 10 and 100  *)
(* in the source; they are scaled down so that a full buffer, and so a     *)
(* blocked sender, is reached with a handful of files.                     *)
(***************************************************************************)
MaxRemote == 2

RemoteFilesCap == 1

UploadTasksCap == 1

ResultsCap == 1

MaxSize == 2

\* the longest report the summary of handleCDNPush is applied to
MaxReport == 3

\* the longest edge rule list buildRedirectMap is applied to
MaxRules == 2

\* the most records a DNS zone holds
MaxRecords == 2

\* the deepest remote directory, counted from the remote root
MaxDepth == 2

\* the URLs over which every redirect map is drawn
MaxURLs == 3

\* the longest redirect chain drawn beside them
MaxChain == 11

\* const numWorkers = 8
numWorkers == 8

\* if chainLength > 10
maxHops == 10

\* handleCDNPush passes "" as the remote directory
remoteDir == ""

(***************************************************************************)
(* Data                                                                    *)
(***************************************************************************)
\* filepath.Join(localDir, rel): the path filepath.Walk hands to the callback
WalkPath(rel) == "localDir" \o "/" \o rel

\* the SHA-256 of a local file's content as the store reports it (upper-case hex)
ContentChecksum(rel) == IF rel = "a.txt" THEN "X" ELSE "Y"

\* variant: the hex digest is returned as hex.EncodeToString gives it
calculateFileChecksum_LowerHex(rel) == IF rel = "a.txt" THEN "x" ELSE "y"

\* calculateFileChecksum on success: strings.ToUpper(hex.EncodeToString(sum))
calculateFileChecksum(rel) == ContentChecksum(rel)

\* the local files the walk may find, with size and content checksum
LocalFileInfo(rel) ==
  [Path |-> WalkPath(rel), Size |-> 1,
   Checksum |-> calculateFileChecksum(rel), RelPath |-> rel]

LocalPaths == {"a.txt", "b.txt"}

\* the local files whose content may turn out unreadable for the checksum
MayLackChecksum == {"b.txt"}

\* what a listing of the remote root may hold in Spec (files only)
RemoteFileInfo ==
  { [Name |-> "a.txt", Size |-> 1, Checksum |-> "X", IsDirectory |-> FALSE],
    [Name |-> "a.txt", Size |-> 2, Checksum |-> "X", IsDirectory |-> FALSE],
    [Name |-> "b.txt", Size |-> 1, Checksum |-> "", IsDirectory |-> FALSE],
    [Name |-> "b.txt", Size |-> 1, Checksum |-> "X", IsDirectory |-> FALSE],
    [Name |-> "z.txt", Size |-> 1, Checksum |-> "X", IsDirectory |-> FALSE] }

RemoteFile(name) ==
  [Name |-> name, Size |-> 1, Checksum |-> "X", IsDirectory |-> FALSE]

RemoteDirectory(name) ==
  [Name |-> name, Size |-> 0, Checksum |-> "", IsDirectory |-> TRUE]

\* the remote directories below the root and what a listing of each holds
SubListing ==
  [p \in {"d1", "d1/d3", "d2"} |->
     CASE p = "d1" -> <<RemoteFile("c.txt"), RemoteDirectory("d3")>>
       [] p = "d1/d3" -> <<RemoteFile("e.txt")>>
       [] p = "d2" -> <<RemoteFile("f.txt")>>]

\* the root listings of TreeSpec: two sibling directories and a file
TreeRoots ==
  { <<RemoteDirectory("d1"), RemoteDirectory("d2")>>,
    <<RemoteDirectory("d2"), RemoteFile("b.txt"), RemoteDirectory("d1")>> }

\* the descriptor pairs of SkipSpec
Checksums == {"", "ABC123", "DEF456"}

Descriptors == [Size : 0..MaxSize, Checksum : Checksums]

RECURSIVE SeqsUpTo(_, _)
SeqsUpTo(S, n) ==
  IF n = 0 THEN {<<>>}
  ELSE LET shorter == SeqsUpTo(S, n - 1)
       IN shorter \cup {Append(s, x) : s \in {t \in shorter : Len(t) = n - 1}, x \in S}

\* filepath.Join(remoteDir, relPath) followed by the separator normalisation
JoinRemote(dir, rel) == IF dir = "" THEN rel ELSE <<dir, rel>>

\* filepath.Join of a directory path and a name, "/" as the separator
Join(dir, name) == IF dir = "" THEN name ELSE dir \o "/" \o name

VARIABLES
  pcMain,        \* uploadDirectoryOptimized: "init", "wait" (<-done), "returned"
  remoteStore,   \* what listRemoteFiles returns for remoteDir
  localStates,   \* map[string]*LocalFileState
  ctxDone,       \* ctx.Done() is closed
  pcStreamer,    \* remoteFileStreamer: "off", "list", "send", "done"
  toSend,        \* the entries of the listing not yet sent
  remoteFiles,   \* chan RemoteFileInfo: [buf, closed]
  pcChecker,     \* skipChecker: "off", "recv", "sendResult", "sendTask", "sweep", "done"
  panicked,      \* a goroutine sent on a closed channel: the process is dead
  pending,       \* the value skipChecker is sending
  sweepTodo,     \* keys the residual range loop has not visited yet
  uploadTasks,   \* chan FileUploadTask: [buf, closed]
  inFlight,      \* bag of tasks held by uploaders inside uploadFileToStorage
  wExited,       \* number of uploaders that returned (uploaderWG.Done)
  results,       \* chan FileUploadStatus: [buf, closed]
  allResults,    \* the collector's slice
  pcCollector,   \* "off", "run", "done"
  done,          \* the done channel holds its value
  report,        \* the returned slice (<<>> until the function returns)
  seenRemote,    \* history: remote entries skipChecker received
  enqCount,      \* history: per relative path, tasks put on uploadTasks
  callCount,     \* history: per relative path, calls of uploadFileToStorage
  walked,        \* history: what buildLocalFileMap returned (<<>> before the walk)
  curPath,       \* remoteFileStreamer: currentPath of the running streamFiles call
  streamStack,   \* remoteFileStreamer: the suspended streamFiles calls, outermost first
  listFailed,    \* history: the remote directories whose listing returned an error
  listLog,       \* history: the listing calls made, as <<remote path, outcome>>
  run,           \* 1 for the first invocation of the command, 2 for a second one
  skipIn,        \* SkipSpec: the (local, remote) pair
  skipOut,       \* SkipSpec: what shouldSkipUpload returned for it
  callIn,        \* the specifications of the other pure functions: the argument
  callOut        \* and what the function returned for it (<<>> before the call)

vars == <<pcMain, remoteStore, localStates, ctxDone, pcStreamer, toSend, panicked,
          remoteFiles, pcChecker, pending, sweepTodo, uploadTasks, inFlight,
          wExited, results, allResults, pcCollector, done, report,
          seenRemote, enqCount, callCount, walked, curPath, streamStack,
          listFailed, listLog, run, skipIn, skipOut, callIn, callOut>>

pipelineVars == <<pcMain, remoteStore, localStates, ctxDone, pcStreamer, toSend, panicked,
          remoteFiles, pcChecker, pending, sweepTodo, uploadTasks, inFlight,
          wExited, results, allResults, pcCollector, done, report,
          seenRemote, enqCount, callCount, walked, curPath, streamStack,
          listFailed, listLog, run>>

skipVars == <<skipIn, skipOut, callIn, callOut>>

(***************************************************************************)
(* Skip Decision Engine                                                    *)
(***************************************************************************)
\* variant: the checksums are compared before the sizes
shouldSkipUpload_ChecksumFirst(localFile, remoteFile) ==
  IF remoteFile.Checksum # "" /\ localFile.Checksum = remoteFile.Checksum
  THEN <<TRUE, "checksum match">>
  ELSE IF localFile.Size # remoteFile.Size THEN <<FALSE, "">>
  ELSE IF remoteFile.Checksum # "" /\ localFile.Checksum # "" THEN <<FALSE, "">>
  ELSE <<TRUE, "size match (no checksum)">>

\* variant: the checksum branch is taken only for non-empty files
shouldSkipUpload_EmptyFileBySize(localFile, remoteFile) ==
  IF localFile.Size # remoteFile.Size THEN <<FALSE, "">>
  ELSE IF localFile.Size > 0 /\ remoteFile.Checksum # "" /\ localFile.Checksum # "" THEN
    IF localFile.Checksum = remoteFile.Checksum
    THEN <<TRUE, "checksum match">>
    ELSE <<FALSE, "">>
  ELSE <<TRUE, "size match (no checksum)">>

\* variant: differing checksums fall through to the size comparison
shouldSkipUpload_FallThrough(localFile, remoteFile) ==
  IF localFile.Size # remoteFile.Size THEN <<FALSE, "">>
  ELSE IF remoteFile.Checksum # "" /\ localFile.Checksum # ""
          /\ localFile.Checksum = remoteFile.Checksum
    THEN <<TRUE, "checksum match">>
  ELSE IF localFile.Size = remoteFile.Size
    THEN <<TRUE, "size match (no checksum)">>
    ELSE <<FALSE, "">>

\* variant: the checksums are compared as soon as one of them is known
shouldSkipUpload_EitherChecksum(localFile, remoteFile) ==
  IF localFile.Size # remoteFile.Size THEN <<FALSE, "">>
  ELSE IF remoteFile.Checksum # "" \/ localFile.Checksum # "" THEN
    IF localFile.Checksum = remoteFile.Checksum
    THEN <<TRUE, "checksum match">>
    ELSE <<FALSE, "">>
  ELSE <<TRUE, "size match (no checksum)">>

shouldSkipUpload(localFile, remoteFile) ==
  IF localFile.Size # remoteFile.Size THEN <<FALSE, "">>
  ELSE IF remoteFile.Checksum # "" /\ localFile.Checksum # "" THEN
    IF localFile.Checksum = remoteFile.Checksum
    THEN <<TRUE, "checksum match">>
    ELSE <<FALSE, "">>
  ELSE IF localFile.Size = remoteFile.Size
    THEN <<TRUE, "size match (no checksum)">>
    ELSE <<FALSE, "">>

(***************************************************************************)
(* Channels                                                                *)
(***************************************************************************)
MakeChan == [buf |-> <<>>, closed |-> FALSE]

\* variant: a channel takes a value only while it holds less than cap - 1
CanSend_OneLess(ch, cap) == ~ch.closed /\ Len(ch.buf) < cap - 1

CanSend(ch, cap) == ~ch.closed /\ Len(ch.buf) < cap

Send(ch, v) == [ch EXCEPT !.buf = Append(@, v)]

CanRecv(ch) == ch.buf # <<>>

Recv(ch) == [ch EXCEPT !.buf = Tail(@)]

\* a receive returns ok = false: closed and drained
Drained(ch) == ch.closed /\ ch.buf = <<>>

Close(ch) == [ch EXCEPT !.closed = TRUE]

(***************************************************************************)
(* Records                                                                 *)
(***************************************************************************)
SkippedStatus(file, reason) ==
  [Path |-> file.Path, Success |-> TRUE, Error |-> "", Skipped |-> TRUE,
   Reason |-> reason]

\* variant: the uploader's record always says success
UploadStatus_SuccessSet(file, err) ==
  [Path |-> file.Path, Success |-> TRUE, Error |-> err, Skipped |-> FALSE,
   Reason |-> ""]

UploadStatus(file, err) ==
  [Path |-> file.Path, Success |-> (err = ""), Error |-> err, Skipped |-> FALSE,
   Reason |-> ""]

FileUploadTask(file) ==
  [LocalFile |-> file, RemotePath |-> JoinRemote(remoteDir, file.RelPath)]

\* variant: one uploader more than numWorkers may hold a task
Idle_OneMore == numWorkers + 1 - wExited - BagCardinality(inFlight)

Idle == numWorkers - wExited - BagCardinality(inFlight)

InitPipeline(store) ==
  /\ pcMain = "init"
  /\ remoteStore = store
  /\ localStates = <<>>
  /\ ctxDone = FALSE
  /\ pcStreamer = "off"
  /\ toSend = <<>>
  /\ remoteFiles = MakeChan
  /\ pcChecker = "off"
  /\ panicked = FALSE
  /\ pending = <<>>
  /\ sweepTodo = {}
  /\ uploadTasks = MakeChan
  /\ inFlight = EmptyBag
  /\ wExited = 0
  /\ results = MakeChan
  /\ allResults = <<>>
  /\ pcCollector = "off"
  /\ done = FALSE
  /\ report = <<>>
  /\ seenRemote = {}
  /\ enqCount = [p \in LocalPaths |-> 0]
  /\ callCount = [p \in LocalPaths |-> 0]
  /\ walked = <<>>
  /\ curPath = remoteDir
  /\ streamStack = <<>>
  /\ listFailed = {}
  /\ listLog = <<>>
  /\ run = 1

Init ==
  /\ \E store \in SeqsUpTo(RemoteFileInfo, MaxRemote) : InitPipeline(store)
  /\ skipIn = <<>>
  /\ skipOut = <<>>
  /\ callIn = <<>>
  /\ callOut = <<>>

(***************************************************************************)
(* uploadDirectoryOptimized: inventory, channels, goroutines               *)
(***************************************************************************)
\* variant: a checksum that cannot be computed is returned from the callback
buildLocalFileMap_ChecksumAborts ==
  {[err |-> "walk", at |-> at, files |-> {}, noSum |-> {}] :
     at \in {"localDir"} \cup LocalPaths} \cup
  {[err |-> "rel", at |-> at, files |-> {}, noSum |-> {}] : at \in LocalPaths} \cup
  UNION {{[err |-> IF N = {} THEN "" ELSE "checksum", at |-> "",
            files |-> IF N = {} THEN S ELSE {}, noSum |-> N] :
              N \in SUBSET (S \cap MayLackChecksum)} :
           S \in SUBSET LocalPaths}

\* buildLocalFileMap: what filepath.Walk and its callback come to.
\*   err = "walk": the callback is handed an error for the root or for an
\*                 entry (at) and returns it, which ends the walk;
\*   err = "rel":  filepath.Rel fails for the file at, the callback returns
\*                 the error, which ends the walk;
\*   err = "":     the files found; for those of noSum calculateFileChecksum
\*                 failed, which is printed as a warning and not returned.
buildLocalFileMap ==
  {[err |-> "walk", at |-> at, files |-> {}, noSum |-> {}] :
     at \in {"localDir"} \cup LocalPaths} \cup
  {[err |-> "rel", at |-> at, files |-> {}, noSum |-> {}] : at \in LocalPaths} \cup
  UNION {{[err |-> "", at |-> "", files |-> S, noSum |-> N] :
              N \in SUBSET (S \cap MayLackChecksum)} :
           S \in SUBSET LocalPaths}

\* localFileMap[relPath] = LocalFileInfo{..., Checksum: checksum, ...}
localFileMap(walk) ==
  [rel \in walk.files |->
     IF rel \in walk.noSum
     THEN [LocalFileInfo(rel) EXCEPT !.Checksum = ""]
     ELSE LocalFileInfo(rel)]

NewLocalFileState(file) ==
  [File |-> file, Checked |-> FALSE, Skip |-> FALSE, Reason |-> ""]

RootFailure ==
  [Path |-> "localDir", Success |-> FALSE,
   Error |-> "failed to build local file list", Skipped |-> FALSE, Reason |-> ""]

\* the goroutines and channels uploadDirectoryOptimized sets up after the walk
Launch(walk) ==
  /\ localStates' =
       [rel \in walk.files |-> NewLocalFileState(localFileMap(walk)[rel])]
  /\ pcStreamer' = "list"
  /\ pcChecker' = "recv"
  /\ pcCollector' = "run"
  /\ pcMain' = "wait"

\* variant: an inventory error is ignored and the pipeline is started anyway
Start_IgnoreWalkError ==
  /\ pcMain = "init"
  /\ \E walk \in buildLocalFileMap :
       /\ walked' = walk
       /\ Launch(walk)
       /\ UNCHANGED report
  /\ UNCHANGED <<remoteStore, ctxDone, toSend, remoteFiles, pending, sweepTodo,
                 uploadTasks, inFlight, wExited, results, allResults, done,
                 seenRemote, enqCount, callCount>>
  /\ UNCHANGED <<panicked, skipIn, skipOut, callIn, callOut>>
  /\ UNCHANGED <<curPath, streamStack, listFailed, listLog, run>>

Start ==
  /\ pcMain = "init"
  /\ \E walk \in buildLocalFileMap :
       /\ walked' = walk
       /\ IF walk.err # ""
          THEN /\ report' = <<RootFailure>>
               /\ pcMain' = "returned"
               /\ UNCHANGED <<localStates, pcStreamer, pcChecker, pcCollector>>
          ELSE /\ Launch(walk)
               /\ UNCHANGED report
  /\ UNCHANGED <<remoteStore, ctxDone, toSend, remoteFiles, pending, sweepTodo,
                 uploadTasks, inFlight, wExited, results, allResults, done,
                 seenRemote, enqCount, callCount>>
  /\ UNCHANGED <<panicked, skipIn, skipOut, callIn, callOut>>
  /\ UNCHANGED <<curPath, streamStack, listFailed, listLog, run>>

\* the run's deadline (context.WithTimeout) or the caller's cancel()
Deadline ==
  /\ ~panicked
  /\ pcMain # "init"
  /\ ~ctxDone
  /\ ctxDone' = TRUE
  /\ UNCHANGED <<pcMain, remoteStore, localStates, pcStreamer, toSend, remoteFiles,
                 pcChecker, pending, sweepTodo, uploadTasks, inFlight, wExited,
                 results, allResults, pcCollector, done, report, seenRemote,
                 enqCount, callCount>>
  /\ UNCHANGED <<panicked, skipIn, skipOut, callIn, callOut>>
  /\ UNCHANGED <<walked, curPath, streamStack, listFailed, listLog, run>>

(***************************************************************************)
(* remoteFileStreamer                                                      *)
(***************************************************************************)
\* what the store holds under a remote directory
Listing(remotePath) ==
  IF remotePath = remoteDir THEN remoteStore ELSE SubListing[remotePath]

\* what a listing request may come to: client.Do fails (err), or the store
\* answers with a status
ListResponses ==
  {[err |-> TRUE, status |-> 0],
   [err |-> FALSE, status |-> 200],
   [err |-> FALSE, status |-> 404],
   [err |-> FALSE, status |-> 500]}

\* variant: every status other than 200 is an error
listRemoteFiles_NotFoundFails(remotePath, resp) ==
  IF resp.err \/ resp.status # 200
  THEN [err |-> TRUE, files |-> <<>>]
  ELSE [err |-> FALSE, files |-> Listing(remotePath)]

\* listRemoteFiles(ctx, storageZone, remotePath), given the response: the
\* entries, or an error
listRemoteFiles(remotePath, resp) ==
  IF resp.err THEN [err |-> TRUE, files |-> <<>>]
  ELSE IF resp.status = 404 THEN [err |-> FALSE, files |-> <<>>]
  ELSE IF resp.status # 200 THEN [err |-> TRUE, files |-> <<>>]
  ELSE [err |-> FALSE, files |-> Listing(remotePath)]

\* how the history names a response
ResponseKind(resp) ==
  IF resp.err THEN "error"
  ELSE IF resp.status = 200 THEN "ok"
  ELSE IF resp.status = 404 THEN "notfound"
  ELSE "error"

\* the entry as sent: Path is the name for an entry of the root, and
\* filepath.Join(strings.TrimPrefix(currentPath, remoteDir), file.Name) below
\* it (remoteDir is "", so the prefix trimmed is empty)
StreamedEntry(currentPath, file) ==
  [Name |-> file.Name, Size |-> file.Size, Checksum |-> file.Checksum,
   IsDirectory |-> file.IsDirectory,
   Path |-> IF currentPath = "" THEN file.Name ELSE Join(currentPath, file.Name)]

\* variant: a failed listing is returned to the caller like a context error
ListingError_Propagates(res) ==
  /\ toSend' = <<>>
  /\ streamStack' = <<>>
  /\ curPath' = remoteDir

\* if err != nil { print a warning; return nil }: the call lists nothing and
\* its caller goes on with the entries after this directory
ListingError(res) ==
  /\ toSend' = res.files
  /\ UNCHANGED <<streamStack, curPath>>

\* streamFiles(currentPath) up to the range loop: the context test, then the
\* listing, as one step.  A context found done is returned as an error
\* through every suspended call.
StreamerList ==
  /\ ~panicked
  /\ pcStreamer = "list"
  /\ \/ /\ ctxDone
        /\ toSend' = <<>>
        /\ streamStack' = <<>>
        /\ curPath' = remoteDir
        /\ UNCHANGED <<listFailed, listLog>>
     \/ /\ ~ctxDone
        /\ \E resp \in ListResponses :
             LET res == listRemoteFiles(curPath, resp)
             IN /\ listLog' = Append(listLog, <<curPath, ResponseKind(resp)>>)
                /\ IF res.err
                   THEN /\ ListingError(res)
                        /\ listFailed' = listFailed \cup {curPath}
                   ELSE /\ toSend' = res.files
                        /\ UNCHANGED <<streamStack, curPath, listFailed>>
  /\ pcStreamer' = "send"
  /\ UNCHANGED <<pcMain, remoteStore, localStates, ctxDone, remoteFiles,
                 pcChecker, pending, sweepTodo, uploadTasks, inFlight, wExited,
                 results, allResults, pcCollector, done, report, seenRemote,
                 enqCount, callCount>>
  /\ UNCHANGED <<panicked, skipIn, skipOut, callIn, callOut>>
  /\ UNCHANGED <<walked, run>>

\* remoteFiles <- file for an entry that is not a directory
StreamerSend ==
  /\ ~panicked
  /\ pcStreamer = "send"
  /\ toSend # <<>>
  /\ ~Head(toSend).IsDirectory
  /\ CanSend(remoteFiles, RemoteFilesCap)
  /\ remoteFiles' = Send(remoteFiles, StreamedEntry(curPath, Head(toSend)))
  /\ toSend' = Tail(toSend)
  /\ UNCHANGED <<pcMain, remoteStore, localStates, ctxDone, pcStreamer,
                 pcChecker, pending, sweepTodo, uploadTasks, inFlight, wExited,
                 results, allResults, pcCollector, done, report, seenRemote,
                 enqCount, callCount>>
  /\ UNCHANGED <<panicked, skipIn, skipOut, callIn, callOut>>
  /\ UNCHANGED <<walked, curPath, streamStack, listFailed, listLog, run>>

\* if file.IsDirectory { streamFiles(filepath.Join(currentPath, file.Name)) }
StreamerDescend ==
  /\ ~panicked
  /\ pcStreamer = "send"
  /\ toSend # <<>>
  /\ Head(toSend).IsDirectory
  /\ streamStack' = Append(streamStack, [path |-> curPath, rest |-> Tail(toSend)])
  /\ curPath' = Join(curPath, Head(toSend).Name)
  /\ toSend' = <<>>
  /\ pcStreamer' = "list"
  /\ UNCHANGED <<pcMain, remoteStore, localStates, ctxDone, remoteFiles,
                 pcChecker, pending, sweepTodo, uploadTasks, inFlight, wExited,
                 results, allResults, pcCollector, done, report, seenRemote,
                 enqCount, callCount>>
  /\ UNCHANGED <<panicked, skipIn, skipOut, callIn, callOut>>
  /\ UNCHANGED <<walked, listFailed, listLog, run>>

\* a recursive streamFiles call returns nil: its caller's loop goes on
StreamerAscend ==
  /\ ~panicked
  /\ pcStreamer = "send"
  /\ toSend = <<>>
  /\ streamStack # <<>>
  /\ curPath' = streamStack[Len(streamStack)].path
  /\ toSend' = streamStack[Len(streamStack)].rest
  /\ streamStack' = SubSeq(streamStack, 1, Len(streamStack) - 1)
  /\ UNCHANGED <<pcMain, remoteStore, localStates, ctxDone, pcStreamer, remoteFiles,
                 pcChecker, pending, sweepTodo, uploadTasks, inFlight, wExited,
                 results, allResults, pcCollector, done, report, seenRemote,
                 enqCount, callCount>>
  /\ UNCHANGED <<panicked, skipIn, skipOut, callIn, callOut>>
  /\ UNCHANGED <<walked, listFailed, listLog, run>>

\* streamFiles(remoteDir) returned: defer close(remoteFiles)
StreamerClose ==
  /\ ~panicked
  /\ pcStreamer = "send"
  /\ toSend = <<>>
  /\ streamStack = <<>>
  /\ remoteFiles' = Close(remoteFiles)
  /\ pcStreamer' = "done"
  /\ UNCHANGED <<pcMain, remoteStore, localStates, ctxDone, toSend,
                 pcChecker, pending, sweepTodo, uploadTasks, inFlight, wExited,
                 results, allResults, pcCollector, done, report, seenRemote,
                 enqCount, callCount>>
  /\ UNCHANGED <<panicked, skipIn, skipOut, callIn, callOut>>
  /\ UNCHANGED <<walked, curPath, streamStack, listFailed, listLog, run>>

(***************************************************************************)
(* skipChecker                                                             *)
(***************************************************************************)
\* variant: the loop body decides by size alone
Classification_SizeOnly(localState, remoteFile) ==
  IF localState.File.Size = remoteFile.Size
  THEN [kind |-> "result", skip |-> TRUE, reason |-> "size match (no checksum)",
        value |-> SkippedStatus(localState.File, "size match (no checksum)")]
  ELSE [kind |-> "task", skip |-> FALSE, reason |-> "",
        value |-> FileUploadTask(localState.File)]

\* what the loop body emits for a remote entry that has a local counterpart
Classification(localState, remoteFile) ==
  LET decision == shouldSkipUpload(localState.File, remoteFile)
  IN IF decision[1]
     THEN [kind |-> "result", skip |-> TRUE, reason |-> decision[2],
           value |-> SkippedStatus(localState.File, decision[2])]
     ELSE [kind |-> "task", skip |-> FALSE, reason |-> "",
           value |-> FileUploadTask(localState.File)]

\* variant: the residual loop tests the Skip flag only
IsNewFile_SkipOnly(localState) == ~localState.Skip

\* variant: the residual loop takes the files that were checked
IsNewFile_CheckedOnly(localState) == localState.Checked /\ ~localState.Skip

\* the residual loop's test: a file no remote entry matched
IsNewFile(localState) == ~localState.Checked /\ ~localState.Skip

\* variant: a remote entry without a local counterpart is reported as a failure
RemoteOnly_Reported(remoteFile) ==
  /\ pending' = [Path |-> remoteFile.Path, Success |-> FALSE,
                 Error |-> "no local file", Skipped |-> FALSE, Reason |-> ""]
  /\ pcChecker' = "sendResult"
  /\ UNCHANGED localStates

\* if !exists { continue }
RemoteOnly(remoteFile) == UNCHANGED <<localStates, pending, pcChecker>>

\* for remoteFile := range remoteFiles { ... } up to the send
CheckerRecv ==
  /\ ~panicked
  /\ pcChecker = "recv"
  /\ CanRecv(remoteFiles)
  /\ LET remoteFile == Head(remoteFiles.buf)
     IN /\ remoteFiles' = Recv(remoteFiles)
        /\ seenRemote' = seenRemote \cup {remoteFile}
        /\ IF remoteFile.Path \notin DOMAIN localStates
           THEN RemoteOnly(remoteFile)
           ELSE LET c == Classification(localStates[remoteFile.Path], remoteFile)
                IN /\ localStates' =
                        [localStates EXCEPT ![remoteFile.Path] =
                           [@ EXCEPT !.Checked = TRUE,
                                     !.Skip = IF c.skip THEN TRUE ELSE @,
                                     !.Reason = IF c.skip THEN c.reason ELSE @]]
                   /\ pending' = c.value
                   /\ pcChecker' = IF c.kind = "result" THEN "sendResult" ELSE "sendTask"
  /\ UNCHANGED <<pcMain, remoteStore, ctxDone, pcStreamer, toSend, sweepTodo,
                 uploadTasks, inFlight, wExited, results, allResults, pcCollector,
                 done, report, enqCount, callCount>>
  /\ UNCHANGED <<panicked, skipIn, skipOut, callIn, callOut>>
  /\ UNCHANGED <<walked, curPath, streamStack, listFailed, listLog, run>>

\* results <- FileUploadStatus{...Skipped: true}; a send on a closed channel panics
CheckerSendResult ==
  /\ ~panicked
  /\ pcChecker = "sendResult"
  /\ IF results.closed
     THEN /\ panicked' = TRUE
          /\ UNCHANGED <<results, pending, pcChecker>>
     ELSE /\ CanSend(results, ResultsCap)
          /\ results' = Send(results, pending)
          /\ pending' = <<>>
          /\ pcChecker' = "recv"
          /\ UNCHANGED panicked
  /\ UNCHANGED <<pcMain, remoteStore, localStates, ctxDone, pcStreamer, toSend,
                 remoteFiles, sweepTodo, uploadTasks, inFlight, wExited, allResults,
                 pcCollector, done, report, seenRemote, enqCount, callCount>>
  /\ UNCHANGED skipVars
  /\ UNCHANGED <<walked, curPath, streamStack, listFailed, listLog, run>>

\* uploadTasks <- FileUploadTask{...} in the streaming loop
CheckerSendTask ==
  /\ ~panicked
  /\ pcChecker = "sendTask"
  /\ CanSend(uploadTasks, UploadTasksCap)
  /\ uploadTasks' = Send(uploadTasks, pending)
  /\ enqCount' = [enqCount EXCEPT ![pending.LocalFile.RelPath] = @ + 1]
  /\ pending' = <<>>
  /\ pcChecker' = "recv"
  /\ UNCHANGED <<pcMain, remoteStore, localStates, ctxDone, pcStreamer, toSend,
                 remoteFiles, sweepTodo, inFlight, wExited, results, allResults,
                 pcCollector, done, report, seenRemote, callCount>>
  /\ UNCHANGED <<panicked, skipIn, skipOut, callIn, callOut>>
  /\ UNCHANGED <<walked, curPath, streamStack, listFailed, listLog, run>>

\* the range loop ends: the channel is closed and drained
CheckerStreamEnd ==
  /\ ~panicked
  /\ pcChecker = "recv"
  /\ Drained(remoteFiles)
  /\ sweepTodo' = DOMAIN localStates
  /\ pcChecker' = "sweep"
  /\ UNCHANGED <<pcMain, remoteStore, localStates, ctxDone, pcStreamer, toSend,
                 remoteFiles, pending, uploadTasks, inFlight, wExited, results,
                 allResults, pcCollector, done, report, seenRemote, enqCount,
                 callCount>>
  /\ UNCHANGED <<panicked, skipIn, skipOut, callIn, callOut>>
  /\ UNCHANGED <<walked, curPath, streamStack, listFailed, listLog, run>>

\* for _, localState := range localStates { ... }: one iteration, in map order
CheckerSweep ==
  /\ ~panicked
  /\ pcChecker = "sweep"
  /\ \E rel \in sweepTodo :
       /\ IF IsNewFile(localStates[rel])
          THEN /\ CanSend(uploadTasks, UploadTasksCap)
               /\ uploadTasks' = Send(uploadTasks, FileUploadTask(localStates[rel].File))
               /\ enqCount' = [enqCount EXCEPT ![rel] = @ + 1]
          ELSE UNCHANGED <<uploadTasks, enqCount>>
       /\ sweepTodo' = sweepTodo \ {rel}
  /\ UNCHANGED <<pcMain, remoteStore, localStates, ctxDone, pcStreamer, toSend,
                 remoteFiles, pcChecker, pending, inFlight, wExited, results,
                 allResults, pcCollector, done, report, seenRemote, callCount>>
  /\ UNCHANGED <<panicked, skipIn, skipOut, callIn, callOut>>
  /\ UNCHANGED <<walked, curPath, streamStack, listFailed, listLog, run>>

\* return: defer close(uploadTasks)
CheckerReturn ==
  /\ ~panicked
  /\ pcChecker = "sweep"
  /\ sweepTodo = {}
  /\ uploadTasks' = Close(uploadTasks)
  /\ pcChecker' = "done"
  /\ UNCHANGED <<pcMain, remoteStore, localStates, ctxDone, pcStreamer, toSend,
                 remoteFiles, pending, sweepTodo, inFlight, wExited, results,
                 allResults, pcCollector, done, report, seenRemote, enqCount,
                 callCount>>
  /\ UNCHANGED <<panicked, skipIn, skipOut, callIn, callOut>>
  /\ UNCHANGED <<walked, curPath, streamStack, listFailed, listLog, run>>

(***************************************************************************)
(* uploader (numWorkers identical goroutines, kept as counts)              *)
(***************************************************************************)
\* the select's task case may be taken whenever a task is ready; with ctx
\* done too, the runtime picks either ready case
DequeueReady == CanRecv(uploadTasks)

\* the response statuses the store is taken to answer a PUT with
Statuses == {200, 201, 204, 401, 404, 500}

\* what one call of uploadFileToStorage can meet: os.ReadFile failing,
\* NewRequestWithContext failing, ctx done before client.Do has its response,
\* client.Do failing otherwise, a nil response, and the response status
UploadAttempts ==
  [readErr : BOOLEAN, reqErr : BOOLEAN, cancelled : BOOLEAN, doErr : BOOLEAN,
   nilResp : BOOLEAN, status : Statuses]

\* variant: every 2xx status is taken for a success
uploadFileToStorage_Any2xx(attempt) ==
  IF attempt.readErr THEN "error reading file"
  ELSE IF attempt.reqErr THEN "error creating request"
  ELSE IF attempt.cancelled \/ attempt.doErr THEN "error uploading file"
  ELSE IF attempt.nilResp THEN "received nil response"
  ELSE IF attempt.status < 200 \/ attempt.status > 299
       THEN "upload failed with status"
  ELSE ""

\* uploadFileToStorage: the returned error, "" for nil
uploadFileToStorage(attempt) ==
  IF attempt.readErr THEN "error reading file"
  ELSE IF attempt.reqErr THEN "error creating request"
  ELSE IF attempt.cancelled \/ attempt.doErr THEN "error uploading file"
  ELSE IF attempt.nilResp THEN "received nil response"
  ELSE IF attempt.status # 201 /\ attempt.status # 200
       THEN "upload failed with status"
  ELSE ""

\* the attempts the pipeline runs with: the store answers "created" or the
\* transport fails; a call begun with ctx done is cancelled
Attempt(cancelled, doErr) ==
  [readErr |-> FALSE, reqErr |-> FALSE, cancelled |-> cancelled,
   doErr |-> doErr, nilResp |-> FALSE, status |-> 201]

UploadErrors(held) ==
  IF held.live
  THEN {uploadFileToStorage(Attempt(FALSE, doErr)) : doErr \in BOOLEAN}
  ELSE {uploadFileToStorage(Attempt(TRUE, FALSE))}

\* variant: the worker that takes a task marks its file as checked
WorkerDequeue_MarksChecked ==
  /\ ~panicked
  /\ pcCollector # "off"
  /\ Idle > 0
  /\ DequeueReady
  /\ LET task == Head(uploadTasks.buf)
     IN /\ uploadTasks' = Recv(uploadTasks)
        /\ inFlight' = inFlight (+) SetToBag({[task |-> task, live |-> ~ctxDone]})
        /\ callCount' = [callCount EXCEPT ![task.LocalFile.RelPath] = @ + 1]
        /\ localStates' =
             [localStates EXCEPT ![task.LocalFile.RelPath].Checked = TRUE]
  /\ UNCHANGED <<pcMain, remoteStore, ctxDone, pcStreamer, toSend,
                 remoteFiles, pcChecker, pending, sweepTodo, wExited, results,
                 allResults, pcCollector, done, report, seenRemote, enqCount>>
  /\ UNCHANGED <<panicked, skipIn, skipOut, callIn, callOut>>
  /\ UNCHANGED <<walked, curPath, streamStack, listFailed, listLog, run>>

\* case task, ok := <-uploadTasks (ok): the worker calls uploadFileToStorage
WorkerDequeue ==
  /\ ~panicked
  /\ pcCollector # "off"
  /\ Idle > 0
  /\ DequeueReady
  /\ LET task == Head(uploadTasks.buf)
     IN /\ uploadTasks' = Recv(uploadTasks)
        /\ inFlight' = inFlight (+) SetToBag({[task |-> task, live |-> ~ctxDone]})
        /\ callCount' = [callCount EXCEPT ![task.LocalFile.RelPath] = @ + 1]
  /\ UNCHANGED <<pcMain, remoteStore, localStates, ctxDone, pcStreamer, toSend,
                 remoteFiles, pcChecker, pending, sweepTodo, wExited, results,
                 allResults, pcCollector, done, report, seenRemote, enqCount>>
  /\ UNCHANGED <<panicked, skipIn, skipOut, callIn, callOut>>
  /\ UNCHANGED <<walked, curPath, streamStack, listFailed, listLog, run>>

\* variant: a failed upload is dropped, only a success is sent
WorkerSendResult_DropOnError ==
  /\ ~panicked
  /\ \E held \in BagToSet(inFlight) :
       \E err \in UploadErrors(held) :
         IF err # ""
         THEN /\ inFlight' = inFlight (-) SetToBag({held})
              /\ UNCHANGED <<results, panicked>>
         ELSE IF results.closed
         THEN /\ panicked' = TRUE
              /\ UNCHANGED <<results, inFlight>>
         ELSE /\ CanSend(results, ResultsCap)
              /\ results' = Send(results, UploadStatus(held.task.LocalFile, err))
              /\ inFlight' = inFlight (-) SetToBag({held})
              /\ UNCHANGED panicked
  /\ UNCHANGED <<pcMain, remoteStore, localStates, ctxDone, pcStreamer, toSend,
                 remoteFiles, pcChecker, pending, sweepTodo, uploadTasks, wExited,
                 allResults, pcCollector, done, report, seenRemote, enqCount,
                 callCount>>
  /\ UNCHANGED skipVars
  /\ UNCHANGED <<walked, curPath, streamStack, listFailed, listLog, run>>

\* variant: a worker returns after it has reported a failed upload
WorkerSendResult_ExitOnError ==
  /\ ~panicked
  /\ \E held \in BagToSet(inFlight) :
       \E err \in UploadErrors(held) :
         IF results.closed
         THEN /\ panicked' = TRUE
              /\ UNCHANGED <<results, inFlight, wExited>>
         ELSE /\ CanSend(results, ResultsCap)
              /\ results' = Send(results, UploadStatus(held.task.LocalFile, err))
              /\ inFlight' = inFlight (-) SetToBag({held})
              /\ wExited' = IF err # "" THEN wExited + 1 ELSE wExited
              /\ UNCHANGED panicked
  /\ UNCHANGED <<pcMain, remoteStore, localStates, ctxDone, pcStreamer, toSend,
                 remoteFiles, pcChecker, pending, sweepTodo, uploadTasks,
                 allResults, pcCollector, done, report, seenRemote, enqCount,
                 callCount>>
  /\ UNCHANGED skipVars
  /\ UNCHANGED <<walked, curPath, streamStack, listFailed, listLog, run>>

\* variant: a worker calls uploadFileToStorage again after a failed upload
WorkerSendResult_RetryOnError ==
  /\ ~panicked
  /\ \E held \in BagToSet(inFlight) :
       \E err \in UploadErrors(held) :
         IF err # ""
         THEN /\ callCount' =
                   [callCount EXCEPT ![held.task.LocalFile.RelPath] = @ + 1]
              /\ UNCHANGED <<results, inFlight, panicked>>
         ELSE IF results.closed
         THEN /\ panicked' = TRUE
              /\ UNCHANGED <<results, inFlight, callCount>>
         ELSE /\ CanSend(results, ResultsCap)
              /\ results' = Send(results, UploadStatus(held.task.LocalFile, err))
              /\ inFlight' = inFlight (-) SetToBag({held})
              /\ UNCHANGED <<panicked, callCount>>
  /\ UNCHANGED <<pcMain, remoteStore, localStates, ctxDone, pcStreamer, toSend,
                 remoteFiles, pcChecker, pending, sweepTodo, uploadTasks, wExited,
                 allResults, pcCollector, done, report, seenRemote, enqCount>>
  /\ UNCHANGED skipVars
  /\ UNCHANGED <<walked, curPath, streamStack, listFailed, listLog, run>>

\* results <- FileUploadStatus{Path, Success: err == nil, Error: err}
WorkerSendResult ==
  /\ ~panicked
  /\ \E held \in BagToSet(inFlight) :
       \E err \in UploadErrors(held) :
         IF results.closed
         THEN /\ panicked' = TRUE
              /\ UNCHANGED <<results, inFlight>>
         ELSE /\ CanSend(results, ResultsCap)
              /\ results' = Send(results, UploadStatus(held.task.LocalFile, err))
              /\ inFlight' = inFlight (-) SetToBag({held})
              /\ UNCHANGED panicked
  /\ UNCHANGED <<pcMain, remoteStore, localStates, ctxDone, pcStreamer, toSend,
                 remoteFiles, pcChecker, pending, sweepTodo, uploadTasks, wExited,
                 allResults, pcCollector, done, report, seenRemote, enqCount,
                 callCount>>
  /\ UNCHANGED skipVars
  /\ UNCHANGED <<walked, curPath, streamStack, listFailed, listLog, run>>

\* case task, ok := <-uploadTasks (!ok): return
WorkerExitClosed ==
  /\ ~panicked
  /\ pcCollector # "off"
  /\ Idle > 0
  /\ Drained(uploadTasks)
  /\ wExited' = wExited + 1
  /\ UNCHANGED <<pcMain, remoteStore, localStates, ctxDone, pcStreamer, toSend,
                 remoteFiles, pcChecker, pending, sweepTodo, uploadTasks, inFlight,
                 results, allResults, pcCollector, done, report, seenRemote,
                 enqCount, callCount>>
  /\ UNCHANGED <<panicked, skipIn, skipOut, callIn, callOut>>
  /\ UNCHANGED <<walked, curPath, streamStack, listFailed, listLog, run>>

\* case <-ctx.Done(): return
WorkerExitCtx ==
  /\ ~panicked
  /\ pcCollector # "off"
  /\ Idle > 0
  /\ ctxDone
  /\ wExited' = wExited + 1
  /\ UNCHANGED <<pcMain, remoteStore, localStates, ctxDone, pcStreamer, toSend,
                 remoteFiles, pcChecker, pending, sweepTodo, uploadTasks, inFlight,
                 results, allResults, pcCollector, done, report, seenRemote,
                 enqCount, callCount>>
  /\ UNCHANGED <<panicked, skipIn, skipOut, callIn, callOut>>
  /\ UNCHANGED <<walked, curPath, streamStack, listFailed, listLog, run>>

(***************************************************************************)
(* closer, collector, return                                               *)
(***************************************************************************)
\* variant: the wait group counts one uploader
WaitGroupDone_One == wExited >= 1

\* uploaderWG.Wait() returns
WaitGroupDone == wExited = numWorkers

\* go func() { uploaderWG.Wait(); close(results) }()
CloseResults ==
  /\ ~panicked
  /\ WaitGroupDone
  /\ ~results.closed
  /\ results' = Close(results)
  /\ UNCHANGED <<pcMain, remoteStore, localStates, ctxDone, pcStreamer, toSend,
                 remoteFiles, pcChecker, pending, sweepTodo, uploadTasks, inFlight,
                 wExited, allResults, pcCollector, done, report, seenRemote,
                 enqCount, callCount>>
  /\ UNCHANGED <<panicked, skipIn, skipOut, callIn, callOut>>
  /\ UNCHANGED <<walked, curPath, streamStack, listFailed, listLog, run>>

\* for result := range results { allResults = append(allResults, result) ... }
CollectorRecv ==
  /\ ~panicked
  /\ pcCollector = "run"
  /\ CanRecv(results)
  /\ allResults' = Append(allResults, Head(results.buf))
  /\ results' = Recv(results)
  /\ UNCHANGED <<pcMain, remoteStore, localStates, ctxDone, pcStreamer, toSend,
                 remoteFiles, pcChecker, pending, sweepTodo, uploadTasks, inFlight,
                 wExited, pcCollector, done, report, seenRemote, enqCount,
                 callCount>>
  /\ UNCHANGED <<panicked, skipIn, skipOut, callIn, callOut>>
  /\ UNCHANGED <<walked, curPath, streamStack, listFailed, listLog, run>>

\* variant: the collector stops as soon as it finds results empty
CollectorDone_WhenEmpty ==
  /\ ~panicked
  /\ pcCollector = "run"
  /\ results.buf = <<>>
  /\ pcCollector' = "done"
  /\ done' = TRUE
  /\ UNCHANGED <<pcMain, remoteStore, localStates, ctxDone, pcStreamer, toSend,
                 remoteFiles, pcChecker, pending, sweepTodo, uploadTasks, inFlight,
                 wExited, results, allResults, report, seenRemote, enqCount,
                 callCount>>
  /\ UNCHANGED <<panicked, skipIn, skipOut, callIn, callOut>>
  /\ UNCHANGED <<walked, curPath, streamStack, listFailed, listLog, run>>

\* the range loop ends; done <- true
CollectorDone ==
  /\ ~panicked
  /\ pcCollector = "run"
  /\ Drained(results)
  /\ pcCollector' = "done"
  /\ done' = TRUE
  /\ UNCHANGED <<pcMain, remoteStore, localStates, ctxDone, pcStreamer, toSend,
                 remoteFiles, pcChecker, pending, sweepTodo, uploadTasks, inFlight,
                 wExited, results, allResults, report, seenRemote, enqCount,
                 callCount>>
  /\ UNCHANGED <<panicked, skipIn, skipOut, callIn, callOut>>
  /\ UNCHANGED <<walked, curPath, streamStack, listFailed, listLog, run>>

\* <-done; return allResults
Return ==
  /\ ~panicked
  /\ pcMain = "wait"
  /\ done
  /\ pcMain' = "returned"
  /\ report' = allResults
  /\ UNCHANGED <<remoteStore, localStates, ctxDone, pcStreamer, toSend,
                 remoteFiles, pcChecker, pending, sweepTodo, uploadTasks, inFlight,
                 wExited, results, allResults, pcCollector, done, seenRemote,
                 enqCount, callCount>>
  /\ UNCHANGED <<panicked, skipIn, skipOut, callIn, callOut>>
  /\ UNCHANGED <<walked, curPath, streamStack, listFailed, listLog, run>>

\* the steps of a run whose context is never done
Pipeline ==
  \/ StreamerList \/ StreamerSend \/ StreamerClose
  \/ CheckerRecv \/ CheckerSendResult \/ CheckerSendTask
  \/ CheckerStreamEnd \/ CheckerSweep \/ CheckerReturn
  \/ WorkerDequeue \/ WorkerSendResult \/ WorkerExitClosed
  \/ CloseResults \/ CollectorRecv \/ CollectorDone \/ Return

\* every step is guarded by ~panicked: a panic ends the process
Next == Start \/ Deadline \/ Pipeline \/ WorkerExitCtx

Spec == Init /\ [][Next]_vars

(***************************************************************************)
(* A run whose deadline never fires, under fair scheduling: every          *)
(* goroutine that can take a step eventually takes one, and every listing  *)
(* and upload call returns.                                                *)
(***************************************************************************)
NextNoDeadline == Start \/ Pipeline

LiveSpec ==
  /\ Init
  /\ [][NextNoDeadline]_vars
  /\ WF_vars(Start \/ Return)
  /\ WF_vars(StreamerList \/ StreamerSend \/ StreamerClose)
  /\ WF_vars(CheckerRecv \/ CheckerSendResult \/ CheckerSendTask
               \/ CheckerStreamEnd \/ CheckerSweep \/ CheckerReturn)
  /\ WF_vars(WorkerDequeue \/ WorkerSendResult \/ WorkerExitClosed)
  /\ WF_vars(CloseResults)
  /\ WF_vars(CollectorRecv \/ CollectorDone)

(***************************************************************************)
(* A remote store with directories: the streamer recurses into them.  The  *)
(* deadline never fires; scheduling is fair.                               *)
(***************************************************************************)
TreeInit ==
  /\ \E store \in TreeRoots : InitPipeline(store)
  /\ skipIn = <<>>
  /\ skipOut = <<>>
  /\ callIn = <<>>
  /\ callOut = <<>>

TreeNext == Start \/ Pipeline \/ StreamerDescend \/ StreamerAscend

TreeSpec ==
  /\ TreeInit
  /\ [][TreeNext]_vars
  /\ WF_vars(Start \/ Return)
  /\ WF_vars(StreamerList \/ StreamerSend \/ StreamerDescend \/ StreamerAscend
               \/ StreamerClose)
  /\ WF_vars(CheckerRecv \/ CheckerSendResult \/ CheckerSendTask
               \/ CheckerStreamEnd \/ CheckerSweep \/ CheckerReturn)
  /\ WF_vars(WorkerDequeue \/ WorkerSendResult \/ WorkerExitClosed)
  /\ WF_vars(CloseResults)
  /\ WF_vars(CollectorRecv \/ CollectorDone)

(***************************************************************************)
(* The command run a second time over the same local tree, after a first   *)
(* run that uploaded every local file.  The deadline never fires.          *)
(***************************************************************************)
\* the local files the report shows as uploaded
Uploaded ==
  {rel \in DOMAIN localStates :
     \E i \in 1..Len(report) :
       report[i].Path = WalkPath(rel) /\ report[i].Success /\ ~report[i].Skipped}

\* the object a successful PUT leaves in the store, as a later listing shows
\* it: its name, its length and the checksum of its content
StoredObject(task) ==
  [Name |-> task.RemotePath, Size |-> task.LocalFile.Size,
   Checksum |-> ContentChecksum(task.LocalFile.RelPath), IsDirectory |-> FALSE]

\* the listings of the root after the uploads: the entries not overwritten,
\* then the uploaded objects in any order
StoreAfterUploads ==
  LET kept == SelectSeq(remoteStore, LAMBDA e : e.Name \notin Uploaded)
      n == Cardinality(Uploaded)
      orders == {o \in [1..n -> Uploaded] : \A i, j \in 1..n : o[i] = o[j] => i = j}
  IN {kept \o [i \in 1..n |-> StoredObject(FileUploadTask(localStates[o[i]].File))] :
        o \in orders}

Rerun ==
  /\ ~panicked
  /\ run = 1
  /\ pcMain = "returned" /\ pcCollector = "done"
  /\ ~ctxDone
  /\ Uploaded = DOMAIN localStates
  /\ \A i \in 1..Len(report) : report[i].Success /\ ~report[i].Skipped
  /\ run' = 2
  /\ remoteStore' \in StoreAfterUploads
  /\ \E walk \in buildLocalFileMap :
       /\ walk.err = ""
       /\ walk.files = DOMAIN localStates
       /\ walked' = walk
       /\ Launch(walk)
  /\ toSend' = <<>>
  /\ remoteFiles' = MakeChan
  /\ pending' = <<>>
  /\ sweepTodo' = {}
  /\ uploadTasks' = MakeChan
  /\ inFlight' = EmptyBag
  /\ wExited' = 0
  /\ results' = MakeChan
  /\ allResults' = <<>>
  /\ done' = FALSE
  /\ report' = <<>>
  /\ seenRemote' = {}
  /\ enqCount' = [p \in LocalPaths |-> 0]
  /\ callCount' = [p \in LocalPaths |-> 0]
  /\ curPath' = remoteDir
  /\ streamStack' = <<>>
  /\ listFailed' = {}
  /\ listLog' = <<>>
  /\ UNCHANGED <<ctxDone, panicked, skipIn, skipOut, callIn, callOut>>

RerunNext == Start \/ Pipeline \/ Rerun

RerunSpec == Init /\ [][RerunNext]_vars

(***************************************************************************)
(* shouldSkipUpload applied to each pair of a bounded set of descriptors   *)
(***************************************************************************)
SkipInit ==
  /\ InitPipeline(<<>>)
  /\ skipIn \in Descriptors \X Descriptors
  /\ skipOut = <<>>
  /\ callIn = <<>>
  /\ callOut = <<>>

SkipCall ==
  /\ skipOut = <<>>
  /\ skipOut' = shouldSkipUpload(skipIn[1], skipIn[2])
  /\ UNCHANGED <<skipIn, callIn, callOut>>
  /\ UNCHANGED pipelineVars

SkipSpec == SkipInit /\ [][SkipCall]_vars

(***************************************************************************)
(* A root listing long enough to fill the queues between the stages: two   *)
(* entries that meet a local file and two that do not.                     *)
(***************************************************************************)
StallStores ==
  { <<[Name |-> "a.txt", Size |-> 2, Checksum |-> "X", IsDirectory |-> FALSE],
      [Name |-> "b.txt", Size |-> 1, Checksum |-> "X", IsDirectory |-> FALSE],
      RemoteFile("c.txt"), RemoteFile("e.txt")>>,
    <<[Name |-> "a.txt", Size |-> 1, Checksum |-> "X", IsDirectory |-> FALSE],
      [Name |-> "b.txt", Size |-> 1, Checksum |-> "X", IsDirectory |-> FALSE],
      RemoteFile("c.txt"), RemoteFile("e.txt")>> }

StallInit ==
  /\ \E store \in StallStores : InitPipeline(store)
  /\ skipIn = <<>>
  /\ skipOut = <<>>
  /\ callIn = <<>>
  /\ callOut = <<>>

StallSpec == StallInit /\ [][NextNoDeadline]_vars

(***************************************************************************)
(* A root listing that makes more upload tasks than there are uploaders:   *)
(* the store names one file numWorkers + 2 times, once as it is locally.   *)
(***************************************************************************)
PoolStore ==
  <<[Name |-> "a.txt", Size |-> 1, Checksum |-> "X", IsDirectory |-> FALSE]>>
    \o [i \in 1..(numWorkers + 1) |->
          [Name |-> "a.txt", Size |-> 2, Checksum |-> "X", IsDirectory |-> FALSE]]

PoolInit ==
  /\ InitPipeline(PoolStore)
  /\ skipIn = <<>>
  /\ skipOut = <<>>
  /\ callIn = <<>>
  /\ callOut = <<>>

PoolSpec == PoolInit /\ [][NextNoDeadline]_vars

(***************************************************************************)
(* The eager revision (part_003 lines 1-322): a complete remote map, then  *)
(* one sequential loop over the local files.                               *)
(***************************************************************************)
\* buildRemoteFileMap over a root listing of files: fileMap[relPath] = file in
\* listing order, a later entry replacing an earlier one with the same path
buildRemoteFileMap(store) ==
  LET RECURSIVE Collect(_, _)
      Collect(i, fileMap) ==
        IF i > Len(store) THEN fileMap
        ELSE Collect(i + 1,
                     [k \in DOMAIN fileMap \cup {store[i].Name} |->
                        IF k = store[i].Name
                        THEN StreamedEntry(remoteDir, store[i])
                        ELSE fileMap[k]])
  IN Collect(1, <<>>)

\* the eager walk callback records an error for the root or an entry and
\* returns nil: the paths that get a failure record and the files kept
EagerFailures(walk) ==
  IF walk.err = "" THEN {}
  ELSE IF walk.at = "localDir" THEN {"localDir"}
  ELSE {WalkPath(walk.at)}

EagerFiles(walk) ==
  IF walk.err = "" THEN localFileMap(walk)
  ELSE IF walk.at = "localDir" THEN <<>>
  ELSE [rel \in LocalPaths \ {walk.at} |-> LocalFileInfo(rel)]

\* the eager uploadDirectoryOptimized, with uploadFileToStorage returning
\* uploadResult[rel] for the file rel; the records in some order
eagerUploadDirectory(walk, store, uploadResult) ==
  LET remoteFileMap == buildRemoteFileMap(store)
      localFiles == EagerFiles(walk)
      Outcome(rel) ==
        LET localFile == localFiles[rel]
            decision == IF rel \in DOMAIN remoteFileMap
                        THEN shouldSkipUpload(localFile, remoteFileMap[rel])
                        ELSE <<FALSE, "">>
        IN IF decision[1]
           THEN SkippedStatus(localFile, decision[2])
           ELSE UploadStatus(localFile, uploadResult[rel])
      RECURSIVE Records(_)
      Records(S) ==
        IF S = {} THEN <<>>
        ELSE LET x == CHOOSE y \in S : TRUE
             IN <<x>> \o Records(S \ {x})
  IN Records({[Path |-> path, Success |-> FALSE, Error |-> "walk error",
               Skipped |-> FALSE, Reason |-> ""] : path \in EagerFailures(walk)}
             \cup {Outcome(rel) : rel \in DOMAIN localFiles})

(***************************************************************************)
(* uploadFileToStorage and the uploader's record, for every attempt        *)
(***************************************************************************)
UploadInit ==
  /\ InitPipeline(<<>>)
  /\ skipIn = <<>>
  /\ skipOut = <<>>
  /\ callIn \in {<<attempt>> : attempt \in UploadAttempts}
  /\ callOut = <<>>

\* the uploader's body for one task: the call and the record it sends
UploadCall ==
  /\ callOut = <<>>
  /\ callOut' = <<UploadStatus(LocalFileInfo("a.txt"),
                                uploadFileToStorage(callIn[1]))>>
  /\ UNCHANGED <<skipIn, skipOut, callIn>>
  /\ UNCHANGED pipelineVars

UploadSpec == UploadInit /\ [][UploadCall]_vars

(***************************************************************************)
(* handleCDNPush: the summary and the exit status for a returned report    *)
(***************************************************************************)
\* the records uploadDirectoryOptimized puts in a report
OutcomeRecords ==
  {SkippedStatus(LocalFileInfo(rel), "checksum match") : rel \in LocalPaths}
    \cup {UploadStatus(LocalFileInfo(rel), err) :
            rel \in LocalPaths, err \in {"", "error uploading file"}}
    \cup {RootFailure}

\* variant: a skipped record is counted as uploaded as well
handleCDNPush_SkippedAlsoUploaded(statuses) ==
  LET RECURSIVE Loop(_, _, _, _)
      Loop(i, successful, skipped, failed) ==
        IF i > Len(statuses)
        THEN [successful |-> successful, skipped |-> skipped, failed |-> failed,
              exit |-> IF failed > 0 THEN 1 ELSE 0]
        ELSE IF statuses[i].Success
        THEN IF statuses[i].Skipped
             THEN Loop(i + 1, successful + 1, skipped + 1, failed)
             ELSE Loop(i + 1, successful + 1, skipped, failed)
        ELSE Loop(i + 1, successful, skipped, failed + 1)
  IN Loop(1, 0, 0, 0)

\* the counting loop over the report and os.Exit(1) when failed > 0
handleCDNPush(statuses) ==
  LET RECURSIVE Loop(_, _, _, _)
      Loop(i, successful, skipped, failed) ==
        IF i > Len(statuses)
        THEN [successful |-> successful, skipped |-> skipped, failed |-> failed,
              exit |-> IF failed > 0 THEN 1 ELSE 0]
        ELSE IF statuses[i].Success
        THEN IF statuses[i].Skipped
             THEN Loop(i + 1, successful, skipped + 1, failed)
             ELSE Loop(i + 1, successful + 1, skipped, failed)
        ELSE Loop(i + 1, successful, skipped, failed + 1)
  IN Loop(1, 0, 0, 0)

PushInit ==
  /\ InitPipeline(<<>>)
  /\ skipIn = <<>>
  /\ skipOut = <<>>
  /\ callIn \in {<<statuses>> : statuses \in SeqsUpTo(OutcomeRecords, MaxReport)}
  /\ callOut = <<>>

PushSummary ==
  /\ callOut = <<>>
  /\ callOut' = <<handleCDNPush(callIn[1])>>
  /\ UNCHANGED <<skipIn, skipOut, callIn>>
  /\ UNCHANGED pipelineVars

PushSpec == PushInit /\ [][PushSummary]_vars

(***************************************************************************)
(* buildRedirectMap applied to each list of a bounded set of edge rules    *)
(***************************************************************************)
\* the Triggers of a rule: none, a first trigger without a pattern, with an
\* empty first pattern, with one or two patterns, and a second trigger
TriggerLists ==
  { <<>>,
    <<[PatternMatches |-> <<>>]>>,
    <<[PatternMatches |-> <<"">>]>>,
    <<[PatternMatches |-> <<"/a">>]>>,
    <<[PatternMatches |-> <<"/b", "/a">>]>>,
    <<[PatternMatches |-> <<>>], [PatternMatches |-> <<"/a">>]>> }

EdgeRuleResponse ==
  [ActionType : {1, 2}, ActionParameter1 : {"", "X", "Y"}, Triggers : TriggerLists]

extractSourceURL(rule) ==
  IF Len(rule.Triggers) > 0 /\ Len(rule.Triggers[1].PatternMatches) > 0
  THEN rule.Triggers[1].PatternMatches[1]
  ELSE ""

\* m[key] = value on a Go map
MapPut(m, key, value) ==
  [k \in DOMAIN m \cup {key} |-> IF k = key THEN value ELSE m[k]]

\* variant: a source already in the map keeps its first rule
buildRedirectMap_FirstWins(rules) ==
  LET RECURSIVE Loop(_, _)
      Loop(i, rm) ==
        IF i > Len(rules) THEN rm
        ELSE IF rules[i].ActionType = 1 /\ rules[i].ActionParameter1 # ""
        THEN LET source == extractSourceURL(rules[i])
             IN IF source # "" /\ source \notin DOMAIN rm.Rules
                THEN Loop(i + 1,
                          [SourceToDestination |->
                             MapPut(rm.SourceToDestination, source,
                                    rules[i].ActionParameter1),
                           Rules |-> MapPut(rm.Rules, source, i)])
                ELSE Loop(i + 1, rm)
        ELSE Loop(i + 1, rm)
  IN Loop(1, [SourceToDestination |-> <<>>, Rules |-> <<>>])

\* buildRedirectMap; Rules holds &rules[i], kept here as the index i
buildRedirectMap(rules) ==
  LET RECURSIVE Loop(_, _)
      Loop(i, rm) ==
        IF i > Len(rules) THEN rm
        ELSE IF rules[i].ActionType = 1 /\ rules[i].ActionParameter1 # ""
        THEN LET source == extractSourceURL(rules[i])
             IN IF source # ""
                THEN Loop(i + 1,
                          [SourceToDestination |->
                             MapPut(rm.SourceToDestination, source,
                                    rules[i].ActionParameter1),
                           Rules |-> MapPut(rm.Rules, source, i)])
                ELSE Loop(i + 1, rm)
        ELSE Loop(i + 1, rm)
  IN Loop(1, [SourceToDestination |-> <<>>, Rules |-> <<>>])

RedirectInit ==
  /\ InitPipeline(<<>>)
  /\ skipIn = <<>>
  /\ skipOut = <<>>
  /\ callIn \in {<<rules>> : rules \in SeqsUpTo(EdgeRuleResponse, MaxRules)}
  /\ callOut = <<>>

RedirectCall ==
  /\ callOut = <<>>
  /\ callOut' = <<buildRedirectMap(callIn[1])>>
  /\ UNCHANGED <<skipIn, skipOut, callIn>>
  /\ UNCHANGED pipelineVars

RedirectSpec == RedirectInit /\ [][RedirectCall]_vars

(***************************************************************************)
(* filterMatchingDNSRecords applied to bounded zone lists and hostnames    *)
(***************************************************************************)
\* record types: A, AAAA, CNAME
RecordTypes == {0, 1, 2}

RecordNames == {"www", "WWW", "www.example.com", "api"}

\* the names above that hold no dot
Dotless == {"www", "WWW", "api"}

DNSRecord ==
  {[Type |-> type, Name |-> name,
    Value |-> IF type = 2 THEN "example.com" ELSE "1.2.3.4", TTL |-> 300] :
     type \in RecordTypes, name \in RecordNames}

DNSZone == [Domain : {"example.com"}, Records : SeqsUpTo(DNSRecord, MaxRecords)]

\* a second zone of the account
SecondZones ==
  { [Domain |-> "other.org",
     Records |-> <<[Type |-> 0, Name |-> "WWW", Value |-> "5.6.7.8", TTL |-> 600]>>],
    [Domain |-> "example.com",
     Records |-> <<[Type |-> 2, Name |-> "www", Value |-> "other.org", TTL |-> 600]>>] }

DNSZoneLists ==
  {<<>>} \cup {<<zone>> : zone \in DNSZone}
         \cup {<<zone, second>> : zone \in DNSZone, second \in SecondZones}

\* the hostnames of a pull zone
HostnameLists ==
  { <<>>,
    <<[Value |-> "www.example.com"]>>,
    <<[Value |-> "WWW.Example.com"]>>,
    <<[Value |-> "www"], [Value |-> "www.example.com"]>>,
    <<[Value |-> "www.other.org"], [Value |-> "api.example.com"]>> }

\* strings.ToLower on the strings that occur here
normalizeHostname(hostname) ==
  CASE hostname = "WWW" -> "www"
    [] hostname = "WWW.example.com" -> "www.example.com"
    [] hostname = "WWW.Example.com" -> "www.example.com"
    [] hostname = "WWW.other.org" -> "www.other.org"
    [] OTHER -> hostname

\* the keys createHostnameMap sets to true
createHostnameMap(hostnames) ==
  {normalizeHostname(hostnames[i].Value) : i \in 1..Len(hostnames)}

\* variant: only A records are looked at
isTargetRecordType_AOnly(recordType) == recordType = 0

isTargetRecordType(recordType) == recordType = 0 \/ recordType = 2

formatDNSRecordType(recordType) ==
  CASE recordType = 0 -> "A"
    [] recordType = 1 -> "AAAA"
    [] recordType = 2 -> "CNAME"

\* the names tried for a record: as given, then joined to the zone domain
recordNames(zone, record) ==
  IF record.Name # zone.Domain /\ record.Name \in Dotless
  THEN <<record.Name, record.Name \o "." \o zone.Domain>>
  ELSE <<record.Name>>

\* the inner loop: the first name found in the map gives the record, once
MatchRecord(zone, record, hostnameMap) ==
  LET names == recordNames(zone, record)
      found == {k \in 1..Len(names) : normalizeHostname(names[k]) \in hostnameMap}
  IN IF ~isTargetRecordType(record.Type) \/ found = {} THEN <<>>
     ELSE LET first == CHOOSE k \in found : \A l \in found : k <= l
          IN <<[Name |-> names[first], Type |-> formatDNSRecordType(record.Type),
                Value |-> record.Value, TTL |-> record.TTL]>>

filterMatchingDNSRecords(dnsZones, hostnameMap) ==
  LET RECURSIVE Records(_, _, _)
      Records(zone, j, matchingRecords) ==
        IF j > Len(zone.Records) THEN matchingRecords
        ELSE Records(zone, j + 1,
                     matchingRecords \o MatchRecord(zone, zone.Records[j], hostnameMap))
      RECURSIVE Zones(_, _)
      Zones(i, matchingRecords) ==
        IF i > Len(dnsZones) THEN matchingRecords
        ELSE Zones(i + 1, Records(dnsZones[i], 1, matchingRecords))
  IN Zones(1, <<>>)

DNSInit ==
  /\ InitPipeline(<<>>)
  /\ skipIn = <<>>
  /\ skipOut = <<>>
  /\ callIn \in DNSZoneLists \X HostnameLists
  /\ callOut = <<>>

DNSCall ==
  /\ callOut = <<>>
  /\ callOut' = <<filterMatchingDNSRecords(callIn[1], createHostnameMap(callIn[2]))>>
  /\ UNCHANGED <<skipIn, skipOut, callIn>>
  /\ UNCHANGED pipelineVars

DNSSpec == DNSInit /\ [][DNSCall]_vars

(***************************************************************************)
(* The relative path streamFiles gives a remote file, for each remote root *)
(* and each chain of directories below it.  Paths are sequences of         *)
(* characters here, so that TrimPrefix and Join work on the text.          *)
(***************************************************************************)
\* the remote roots: empty, "/", a name and a nested name, the last two with
\* and without a trailing slash
RemoteRoots ==
  { <<>>, <<"/">>, <<"s">>, <<"s", "/">>, <<"s", "/", "t">>,
    <<"s", "/", "t", "/">> }

DirNames == {<<"d">>, <<"e">>}

FileNames == {<<"f">>, <<"g">>}

\* strings.TrimPrefix
TrimPrefix(str, prefix) ==
  IF Len(prefix) <= Len(str) /\ SubSeq(str, 1, Len(prefix)) = prefix
  THEN SubSeq(str, Len(prefix) + 1, Len(str))
  ELSE str

\* filepath.Clean on paths without dot elements: repeated separators become
\* one and a trailing separator is dropped, except for the root "/"
RECURSIVE Clean(_)
Clean(path) ==
  IF Len(path) <= 1 THEN path
  ELSE IF path[1] = "/" /\ path[2] = "/" THEN Clean(Tail(path))
  ELSE IF Len(path) = 2 /\ path[2] = "/" THEN <<path[1]>>
  ELSE <<path[1]>> \o Clean(Tail(path))

\* filepath.Join of two elements: empty elements are ignored, the rest is
\* joined by the separator and cleaned
filepathJoin(a, b) ==
  IF a = <<>> /\ b = <<>> THEN <<>>
  ELSE IF a = <<>> THEN Clean(b)
  ELSE IF b = <<>> THEN Clean(a)
  ELSE Clean(a \o <<"/">> \o b)

\* strings.ReplaceAll(path, "\\", "/")
ToSlash(path) == [i \in 1..Len(path) |-> IF path[i] = "\\" THEN "/" ELSE path[i]]

\* currentPath of the call of streamFiles that lists the last directory of dirs
RECURSIVE currentPathOf(_, _)
currentPathOf(root, dirs) ==
  IF dirs = <<>> THEN root
  ELSE ToSlash(filepathJoin(currentPathOf(root, SubSeq(dirs, 1, Len(dirs) - 1)),
                            dirs[Len(dirs)]))

\* file.Path as streamFiles sets it
streamRelPath(root, currentPath, name) ==
  IF currentPath # <<>> /\ currentPath # <<"/">>
  THEN ToSlash(filepathJoin(TrimPrefix(currentPath, root), name))
  ELSE name

PathInit ==
  /\ InitPipeline(<<>>)
  /\ skipIn = <<>>
  /\ skipOut = <<>>
  /\ callIn \in RemoteRoots \X SeqsUpTo(DirNames, MaxDepth) \X FileNames
  /\ callOut = <<>>

PathCall ==
  /\ callOut = <<>>
  /\ callOut' = <<streamRelPath(callIn[1], currentPathOf(callIn[1], callIn[2]),
                                 callIn[3])>>
  /\ UNCHANGED <<skipIn, skipOut, callIn>>
  /\ UNCHANGED pipelineVars

PathSpec == PathInit /\ [][PathCall]_vars

(***************************************************************************)
(* checkRedirectLoops run step by step over bounded redirect maps.  URLs   *)
(* are numbered; a redirect map is a function from its sources to their    *)
(* destinations.  The order of the range loop over the map is the          *)
(* runtime's choice and is drawn with the map.                             *)
(***************************************************************************)
\* every map over MaxURLs URLs
SmallMaps ==
  UNION {[D -> 0..(MaxURLs - 1)] : D \in SUBSET (0..(MaxURLs - 1))}

\* 0 -> 1 -> ... -> n, and the same chain closed by n -> j
ChainMaps ==
  {[i \in 0..(n - 1) |-> i + 1] : n \in 1..MaxChain}
    \cup {[i \in 0..n |-> IF i < n THEN i + 1 ELSE j] :
            n \in 0..(MaxChain - 1), j \in 0..(MaxChain - 1)}

RangeOrders(sourceToDestination) ==
  LET sources == DOMAIN sourceToDestination
      c == Cardinality(sources)
  IN IF c <= MaxURLs
     THEN {o \in [1..c -> sources] : \A i, j \in 1..c : i # j => o[i] # o[j]}
     ELSE {[i \in 1..c |-> i - 1], [i \in 1..c |-> c - i]}

TooLongIssue(source) ==
  [Type |-> "redirect_chain", Severity |-> "error",
   Message |-> "Redirect chain too long (>10 hops)", Rule |-> source,
   Hops |-> 0, LoopURL |-> -1]

LoopIssue(source, current) ==
  [Type |-> "redirect_loop", Severity |-> "error",
   Message |-> "Infinite redirect loop detected", Rule |-> source,
   Hops |-> 0, LoopURL |-> current]

\* Message: "Redirect chain detected (%d hops)" with Hops for %d
ChainIssue(source, chainLength) ==
  [Type |-> "redirect_chain", Severity |-> "warning",
   Message |-> "Redirect chain detected (%d hops)", Rule |-> source,
   Hops |-> chainLength, LoopURL |-> -1]

\* the loop's state before the first source
LoopStart ==
  [pc |-> "range", next |-> 1, source |-> 0, visited |-> {}, current |-> 0,
   chainLength |-> 0, issues |-> <<>>]

\* for source, destination := range redirectMap.SourceToDestination
rangeStep(rm, st) ==
  IF st.next > Len(rm.order) THEN [st EXCEPT !.pc = "done"]
  ELSE [st EXCEPT !.pc = "follow",
                  !.next = @ + 1,
                  !.source = rm.order[st.next],
                  !.visited = {},
                  !.current = rm.SourceToDestination[rm.order[st.next]],
                  !.chainLength = 0]

\* variant: the visited test comes before the hop limit
followStep_LoopFirst(rm, st) ==
  LET chainLength == st.chainLength + 1
      broken == [st EXCEPT !.pc = "range", !.chainLength = chainLength]
  IN IF st.current \in st.visited
     THEN [broken EXCEPT !.issues = Append(@, LoopIssue(st.source, st.current))]
     ELSE IF chainLength > maxHops
     THEN [broken EXCEPT !.issues = Append(@, TooLongIssue(st.source))]
     ELSE IF st.current \notin DOMAIN rm.SourceToDestination
     THEN [broken EXCEPT !.visited = @ \cup {st.current},
                         !.issues = IF chainLength > 1
                                    THEN Append(@, ChainIssue(st.source, chainLength))
                                    ELSE @]
     ELSE [st EXCEPT !.chainLength = chainLength,
                     !.visited = @ \cup {st.current},
                     !.current = rm.SourceToDestination[st.current]]

\* one pass of the inner for loop
followStep(rm, st) ==
  LET chainLength == st.chainLength + 1
      broken == [st EXCEPT !.pc = "range", !.chainLength = chainLength]
  IN IF chainLength > maxHops
     THEN [broken EXCEPT !.issues = Append(@, TooLongIssue(st.source))]
     ELSE IF st.current \in st.visited
     THEN [broken EXCEPT !.issues = Append(@, LoopIssue(st.source, st.current))]
     ELSE IF st.current \notin DOMAIN rm.SourceToDestination
     THEN [broken EXCEPT !.visited = @ \cup {st.current},
                         !.issues = IF chainLength > 1
                                    THEN Append(@, ChainIssue(st.source, chainLength))
                                    ELSE @]
     ELSE [st EXCEPT !.chainLength = chainLength,
                     !.visited = @ \cup {st.current},
                     !.current = rm.SourceToDestination[st.current]]

LoopsInit ==
  /\ InitPipeline(<<>>)
  /\ skipIn = <<>>
  /\ skipOut = <<>>
  /\ \E m \in SmallMaps \cup ChainMaps :
       \E o \in RangeOrders(m) :
         callIn = [SourceToDestination |-> m, order |-> o]
  /\ callOut = LoopStart

LoopsRange ==
  /\ callOut.pc = "range"
  /\ callOut' = rangeStep(callIn, callOut)
  /\ UNCHANGED <<skipIn, skipOut, callIn>>
  /\ UNCHANGED pipelineVars

LoopsFollow ==
  /\ callOut.pc = "follow"
  /\ callOut' = followStep(callIn, callOut)
  /\ UNCHANGED <<skipIn, skipOut, callIn>>
  /\ UNCHANGED pipelineVars

LoopsNext == LoopsRange \/ LoopsFollow

LoopsSpec == LoopsInit /\ [][LoopsNext]_vars /\ WF_vars(LoopsNext)

(***************************************************************************)
(* Properties                                                              *)
(***************************************************************************)
RecordsFor(statuses, rel) ==
  {i \in 1..Len(statuses) : statuses[i].Path = WalkPath(rel)}

SkippedRecordsFor(statuses, rel) ==
  {i \in RecordsFor(statuses, rel) : statuses[i].Skipped}

\* the remote store names each relative path at most once
DistinctNames(store) ==
  \A i, j \in 1..Len(store) : store[i].Name = store[j].Name => i = j

\* uploadDirectoryOptimized returned from a run that got past the inventory
Returned == pcMain = "returned" /\ pcCollector = "done"

\* C1: in a run whose deadline never fires and whose remote stream names each
\* relative path at most once, the returned report holds exactly one record
\* for every local file and no other record.
C1_OneRecordPerLocalFile ==
  (Returned /\ ~ctxDone /\ DistinctNames(remoteStore)) =>
    /\ \A rel \in DOMAIN localStates : Cardinality(RecordsFor(report, rel)) = 1
    /\ Len(report) = Cardinality(DOMAIN localStates)

C1_Witness ==
  /\ Returned /\ ~ctxDone /\ DistinctNames(remoteStore)
  /\ DOMAIN localStates = LocalPaths
  /\ Len(report) = 2
  /\ \E i, j \in 1..2 : report[i].Skipped /\ ~report[j].Skipped

\* C2 (as claimed): for each local file at most one UploadTask is enqueued and
\* the transport step is invoked at most once, whatever the remote stream
\* delivers.
C2_AtMostOneUpload ==
  \A rel \in LocalPaths : enqCount[rel] <= 1 /\ callCount[rel] <= 1

\* a skipped record for rel exists: held by skipChecker in its send, buffered
\* on results, or collected
SkippedOutcome(rel) ==
  \/ pcChecker = "sendResult" /\ pending.Path = WalkPath(rel) /\ pending.Skipped
  \/ SkippedRecordsFor(results.buf, rel) # {}
  \/ SkippedRecordsFor(allResults, rel) # {}

\* a remote entry with rel's path arrived and shouldSkipUpload returned true
MatchedSkip(rel) ==
  \E remoteFile \in seenRemote :
    /\ remoteFile.Path = rel
    /\ shouldSkipUpload(localStates[rel].File, remoteFile)[1]

\* C3: a local file gets a skipped record if and only if a remote entry with
\* its relative path arrived and shouldSkipUpload returned true for the pair;
\* in the report of a run whose deadline did not fire, the skipped files are
\* exactly those.
C3_SkippedIffEngineSaysSo ==
  /\ \A rel \in DOMAIN localStates : SkippedOutcome(rel) <=> MatchedSkip(rel)
  /\ (Returned /\ ~ctxDone) =>
       \A rel \in DOMAIN localStates :
         SkippedRecordsFor(report, rel) # {} <=> MatchedSkip(rel)

C3_Witness ==
  /\ Returned /\ ~ctxDone
  /\ SkippedRecordsFor(report, "a.txt") # {}
  /\ \E remoteFile \in seenRemote : remoteFile.Path = "b.txt"
  /\ RecordsFor(report, "b.txt") # {}
  /\ SkippedRecordsFor(report, "b.txt") = {}

\* C4 (as claimed): in no interleaving, with or without the deadline firing,
\* does the classifier or a worker send on the closed outcome channel.
C4_NoSendOnClosedResults == ~panicked

\* C5 (as claimed): every run that gets past the inventory returns a report
\* that holds a record for every local file.
C5_FullReport ==
  Returned => \A rel \in DOMAIN localStates : RecordsFor(report, rel) # {}

\* the order of the shutdown, as a state predicate
ShutdownOrder ==
  /\ uploadTasks.closed => Drained(remoteFiles)
  /\ wExited > 0 => Drained(uploadTasks)
  /\ results.closed => wExited = numWorkers /\ inFlight = EmptyBag
  /\ pcCollector = "done" => Drained(results)
  /\ pcMain = "returned" => pcCollector \in {"off", "done"}
  /\ ~panicked

\* C6: in a run whose deadline never fires, under fair scheduling, the
\* pipeline shuts down in order (remote stream, upload queue, workers,
\* outcome channel, collector) and uploadDirectoryOptimized returns.
C6_OrderlyShutdown == []ShutdownOrder /\ <>(pcMain = "returned")

C6_Witness ==
  /\ Returned
  /\ Len(report) = 2
  /\ \E i \in 1..2 : ~report[i].Skipped

\* C7 (as claimed): once the deadline has fired, no upload worker dequeues
\* another task (no further call of the transport step begins).
C7_NoDequeueAfterDeadline == [][ctxDone => callCount' = callCount]_vars

\* C8: whenever the sizes differ, whatever the checksums, shouldSkipUpload
\* returns skip=false with an empty reason.
C8_SizeMismatchNeverSkips ==
  (skipOut # <<>> /\ skipIn[1].Size # skipIn[2].Size) => skipOut = <<FALSE, "">>

C8_Witness ==
  /\ skipOut # <<>>
  /\ skipIn[1].Size # skipIn[2].Size
  /\ skipIn[1].Checksum = skipIn[2].Checksum
  /\ skipIn[1].Checksum # ""

\* C9: equal sizes (0 included) and equal non-empty checksums give skip=true
\* with reason "checksum match".
C9_ChecksumMatchSkips ==
  (/\ skipOut # <<>>
   /\ skipIn[1].Size = skipIn[2].Size
   /\ skipIn[1].Checksum # ""
   /\ skipIn[1].Checksum = skipIn[2].Checksum) => skipOut = <<TRUE, "checksum match">>

C9_Witness ==
  /\ skipOut # <<>>
  /\ skipIn[1].Size = 0 /\ skipIn[2].Size = 0
  /\ skipIn[1].Checksum # ""
  /\ skipIn[1].Checksum = skipIn[2].Checksum

\* C10: equal sizes and two non-empty checksums that differ give skip=false
\* with an empty reason.
C10_ChecksumMismatchUploads ==
  (/\ skipOut # <<>>
   /\ skipIn[1].Size = skipIn[2].Size
   /\ skipIn[1].Checksum # "" /\ skipIn[2].Checksum # ""
   /\ skipIn[1].Checksum # skipIn[2].Checksum) => skipOut = <<FALSE, "">>

C10_Witness ==
  /\ skipOut # <<>>
  /\ skipIn[1].Size = skipIn[2].Size
  /\ skipIn[1].Checksum = "ABC123" /\ skipIn[2].Checksum = "DEF456"

\* C11: equal sizes and at least one empty checksum (local only, remote only
\* or both) give skip=true with reason "size match (no checksum)".
C11_SizeMatchWithoutChecksum ==
  (/\ skipOut # <<>>
   /\ skipIn[1].Size = skipIn[2].Size
   /\ (skipIn[1].Checksum = "" \/ skipIn[2].Checksum = ""))
     => skipOut = <<TRUE, "size match (no checksum)">>

C11_Witness ==
  /\ skipOut = <<TRUE, "size match (no checksum)">>
  /\ skipIn[1].Size = skipIn[2].Size
  /\ skipIn[1].Checksum = "" /\ skipIn[2].Checksum = "ABC123"

\* the remote directories whose listing request was answered "not found"
NotFoundDirs ==
  {listLog[i][1] : i \in {j \in 1..Len(listLog) : listLog[j][2] = "notfound"}}

\* C12: after a first run that uploaded every local file successfully into a
\* store that then lists each uploaded file with its size and the checksum of
\* its content, a second run over the unchanged tree (the listing delivered,
\* every checksum computed) enqueues no upload task and reports every local
\* file, once, as skipped with reason "checksum match".
C12_SecondRunSkipsEverything ==
  (run = 2 /\ listFailed = {} /\ NotFoundDirs = {} /\ walked.noSum = {}) =>
    /\ \A rel \in LocalPaths : enqCount[rel] = 0 /\ callCount[rel] = 0
    /\ Returned =>
         /\ Len(report) = Cardinality(DOMAIN localStates)
         /\ \A rel \in DOMAIN localStates :
              /\ Cardinality(RecordsFor(report, rel)) = 1
              /\ \A i \in RecordsFor(report, rel) :
                   report[i].Skipped /\ report[i].Reason = "checksum match"

C12_Witness ==
  /\ run = 2 /\ listFailed = {} /\ NotFoundDirs = {} /\ walked.noSum = {}
  /\ Returned
  /\ DOMAIN localStates = LocalPaths
  /\ Len(report) = 2
  /\ \A i \in 1..2 : report[i].Skipped /\ report[i].Reason = "checksum match"

\* a remote entry with rel's path has reached skipChecker
Matched(rel) == \E remoteFile \in seenRemote : remoteFile.Path = rel

\* C13: a local file that no remote entry matched is enqueued by the residual
\* sweep, once, and only after the remote stream has been closed and fully
\* consumed; when skipChecker has returned every such file has been enqueued.
\* With an empty remote store and no deadline every one of the N local files
\* becomes an upload task, none is skipped and the report holds N records.
C13_ResidualSweep ==
  /\ \A rel \in DOMAIN localStates :
       ~Matched(rel) =>
         /\ enqCount[rel] <= 1
         /\ enqCount[rel] = 1 =>
              /\ Drained(remoteFiles)
              /\ pcChecker \in {"sweep", "done"}
              /\ rel \notin sweepTodo
         /\ pcChecker = "done" => enqCount[rel] = 1
  /\ (Returned /\ ~ctxDone /\ remoteStore = <<>>) =>
       /\ Len(report) = Cardinality(DOMAIN localStates)
       /\ \A rel \in DOMAIN localStates :
            /\ enqCount[rel] = 1
            /\ Cardinality(RecordsFor(report, rel)) = 1
            /\ SkippedRecordsFor(report, rel) = {}

C13_Witness ==
  /\ Returned /\ ~ctxDone
  /\ remoteStore = <<>>
  /\ DOMAIN localStates = LocalPaths
  /\ Len(report) = 2
  /\ \A rel \in LocalPaths : enqCount[rel] = 1 /\ callCount[rel] = 1

\* every record and every task in the pipeline is about a local file
OnlyLocalOutput ==
  /\ \A i \in 1..Len(uploadTasks.buf) :
       uploadTasks.buf[i].LocalFile.RelPath \in DOMAIN localStates
  /\ \A i \in 1..Len(results.buf) :
       \E rel \in DOMAIN localStates : results.buf[i].Path = WalkPath(rel)
  /\ \A i \in 1..Len(allResults) :
       \E rel \in DOMAIN localStates : allResults[i].Path = WalkPath(rel)

\* skipChecker takes from the stream an entry whose path no local file has
ReceiveRemoteOnly ==
  /\ pcChecker = "recv"
  /\ CanRecv(remoteFiles)
  /\ remoteFiles' = Recv(remoteFiles)
  /\ Head(remoteFiles.buf).Path \notin DOMAIN localStates

\* C14: a remote entry whose path has no local counterpart is ignored: the
\* step that takes it from the stream leaves the local file states, the upload
\* queue and the outcome channel as they were, and no record or task is ever
\* produced for a path that is not a local file's.
C14_RemoteOnlyIgnored ==
  /\ [][ReceiveRemoteOnly =>
          UNCHANGED <<localStates, uploadTasks, results, pending, pcChecker,
                      enqCount, allResults>>]_vars
  /\ []OnlyLocalOutput

C14_Witness ==
  /\ Returned /\ ~ctxDone
  /\ \E remoteFile \in seenRemote : remoteFile.Path \notin DOMAIN localStates
  /\ DOMAIN localStates = {"a.txt"}
  /\ Len(report) = 1

\* the tasks for rel waiting on the upload queue
TasksQueued(rel) ==
  Cardinality({i \in 1..Len(uploadTasks.buf) :
                 uploadTasks.buf[i].LocalFile.RelPath = rel})

\* the workers inside uploadFileToStorage with a task for rel
TasksHeld(rel) ==
  LET holding == {h \in BagToSet(inFlight) : h.task.LocalFile.RelPath = rel}
      RECURSIVE Sum(_)
      Sum(S) == IF S = {} THEN 0
                ELSE LET h == CHOOSE x \in S : TRUE
                     IN CopiesIn(h, inFlight) + Sum(S \ {h})
  IN Sum(holding)

\* the records an upload worker wrote for rel
UploadRecordsFor(statuses, rel) ==
  {i \in RecordsFor(statuses, rel) : ~statuses[i].Skipped}

\* C15: in a run whose deadline never fires every task put on the upload queue
\* is taken by exactly one worker, which emits exactly one record for it,
\* success or failure: every enqueued task is either still queued or was
\* dequeued once, every dequeued task is either held by its worker or has its
\* one record, and the report of a finished run holds one upload record per
\* enqueued task.
C15_EachTaskOneWorkerOneRecord ==
  \A rel \in LocalPaths :
    /\ enqCount[rel] = TasksQueued(rel) + callCount[rel]
    /\ callCount[rel] =
         TasksHeld(rel) + Cardinality(UploadRecordsFor(results.buf, rel))
                        + Cardinality(UploadRecordsFor(allResults, rel))
    /\ Returned =>
         /\ TasksQueued(rel) = 0 /\ TasksHeld(rel) = 0
         /\ Cardinality(UploadRecordsFor(report, rel)) = enqCount[rel]

C15_Witness ==
  /\ Returned
  /\ \A rel \in LocalPaths :
       /\ enqCount[rel] = 1 /\ callCount[rel] = 1
       /\ \A i \in UploadRecordsFor(report, rel) : report[i].Success
  /\ Len(report) = 2

\* buildLocalFileMap returned an error because the root cannot be walked
RootWalkFailed ==
  pcMain # "init" /\ walked.err = "walk" /\ walked.at = "localDir"

\* C16: when the local root directory cannot be walked the run aborts at once:
\* uploadDirectoryOptimized returns a report of exactly one record, a failure
\* whose path is the root directory, and no goroutine is started: nothing is
\* listed, classified or uploaded.
C16_WalkFailureAborts ==
  RootWalkFailed =>
    /\ pcMain = "returned"
    /\ report = <<RootFailure>>
    /\ ~report[1].Success /\ report[1].Path = "localDir"
    /\ pcStreamer = "off" /\ pcChecker = "off" /\ pcCollector = "off"
    /\ seenRemote = {} /\ listFailed = {}
    /\ \A rel \in LocalPaths : enqCount[rel] = 0 /\ callCount[rel] = 0
    /\ wExited = 0 /\ inFlight = EmptyBag
    /\ remoteFiles = MakeChan /\ uploadTasks = MakeChan /\ results = MakeChan

C16_Witness ==
  /\ RootWalkFailed
  /\ ctxDone
  /\ Len(report) = 1

\* the failure records an upload worker wrote for rel
FailureRecordsFor(statuses, rel) ==
  {i \in UploadRecordsFor(statuses, rel) : ~statuses[i].Success}

\* C17: a failed upload becomes a failure record for that file and does not
\* abort the run: the worker stays in its loop (a worker returns only once the
\* upload queue is closed and drained), the records written for a file never
\* outnumber the upload calls made for it, and the report of a finished run
\* holds one upload record per call, failed or not, and a record for every
\* local file.
C17_FailedUploadDoesNotAbort ==
  /\ wExited > 0 => Drained(uploadTasks)
  /\ \A rel \in LocalPaths :
       Cardinality(UploadRecordsFor(results.buf, rel))
         + Cardinality(UploadRecordsFor(allResults, rel)) <= callCount[rel]
  /\ Returned =>
       /\ wExited = numWorkers
       /\ \A rel \in DOMAIN localStates :
            /\ RecordsFor(report, rel) # {}
            /\ Cardinality(UploadRecordsFor(report, rel)) = callCount[rel]
            /\ \A i \in FailureRecordsFor(report, rel) :
                 report[i].Error # "" /\ report[i].Path = WalkPath(rel)

C17_Witness ==
  /\ Returned
  /\ Len(report) = 2
  /\ callCount["a.txt"] = 1 /\ callCount["b.txt"] = 1
  /\ Cardinality(FailureRecordsFor(report, "a.txt")) = 1
  /\ \E i \in UploadRecordsFor(report, "b.txt") : report[i].Success

\* the paths of the entries the streamer has sent so far
EmittedPaths ==
  {remoteFile.Path : remoteFile \in seenRemote}
    \cup {remoteFiles.buf[i].Path : i \in 1..Len(remoteFiles.buf)}

\* the relative paths of all files in the subtree of a remote directory
RECURSIVE FilesUnder(_)
FilesUnder(dir) ==
  LET entries == Listing(dir)
      idx == 1..Len(entries)
  IN {StreamedEntry(dir, entries[i]).Path : i \in {j \in idx : ~entries[j].IsDirectory}}
       \cup UNION {FilesUnder(Join(dir, entries[i].Name)) :
                     i \in {j \in idx : entries[j].IsDirectory}}

\* the same, leaving out every subtree whose listing failed or was not found
RECURSIVE FilesListed(_)
FilesListed(dir) ==
  IF dir \in listFailed \cup NotFoundDirs THEN {}
  ELSE LET entries == Listing(dir)
           idx == 1..Len(entries)
       IN {StreamedEntry(dir, entries[i]).Path : i \in {j \in idx : ~entries[j].IsDirectory}}
            \cup UNION {FilesListed(Join(dir, entries[i].Name)) :
                          i \in {j \in idx : entries[j].IsDirectory}}

StreamOfFailedListing ==
  /\ \A dir \in listFailed : EmittedPaths \cap FilesUnder(dir) = {}
  /\ pcStreamer = "done" =>
       /\ remoteFiles.closed
       /\ streamStack = <<>> /\ toSend = <<>>
       /\ EmittedPaths = FilesListed(remoteDir)
  /\ ~panicked

\* C18: when the listing of a remote directory fails (the deadline not fired),
\* the streamer emits no entry of that directory's subtree, still lists every
\* sibling subtree and emits its entries, closes the stream normally, and the
\* run completes.
C18_FailedListingSkipsSubtreeOnly ==
  []StreamOfFailedListing /\ <>(pcMain = "returned")

C18_Witness ==
  /\ Returned
  /\ listFailed = {"d1"}
  /\ "d2/f.txt" \in EmittedPaths
  /\ "d1/c.txt" \notin EmittedPaths /\ "d1/d3/e.txt" \notin EmittedPaths
  /\ Len(remoteStore) = 3 /\ "b.txt" \in EmittedPaths

\* the skipped records for rel, wherever they are, give this reason
SkippedReasonIs(rel, reason) ==
  /\ (pcChecker = "sendResult" /\ pending.Path = WalkPath(rel) /\ pending.Skipped)
       => pending.Reason = reason
  /\ \A i \in SkippedRecordsFor(results.buf, rel) : results.buf[i].Reason = reason
  /\ \A i \in SkippedRecordsFor(allResults, rel) : allResults[i].Reason = reason

\* C19: when the checksum of a local file cannot be computed the walk goes on
\* and the run is not aborted: the inventory holds every file found, that file
\* with an empty checksum and its size, and the file is classified by size
\* alone: it is skipped, with reason "size match (no checksum)", exactly when
\* a remote entry of its path and size arrives.
C19_ChecksumFailureKeepsFile ==
  (pcMain # "init" /\ walked.noSum # {}) =>
    /\ walked.err = ""
    /\ pcCollector # "off"
    /\ DOMAIN localStates = walked.files
    /\ \A rel \in walked.noSum :
         /\ rel \in DOMAIN localStates
         /\ localStates[rel].File.Checksum = ""
         /\ localStates[rel].File.Size = LocalFileInfo(rel).Size
         /\ SkippedOutcome(rel) <=>
              \E remoteFile \in seenRemote :
                remoteFile.Path = rel /\ remoteFile.Size = localStates[rel].File.Size
         /\ SkippedReasonIs(rel, "size match (no checksum)")

C19_Witness ==
  /\ Returned /\ ~ctxDone
  /\ walked.noSum = {"b.txt"}
  /\ walked.files = LocalPaths
  /\ \E remoteFile \in seenRemote :
       remoteFile.Path = "b.txt" /\ remoteFile.Checksum = "X"
  /\ \E i \in SkippedRecordsFor(report, "b.txt") :
       report[i].Reason = "size match (no checksum)"
  /\ RecordsFor(report, "a.txt") # {}

\* C20 (as claimed): a failure to compute the relative path of one local file
\* is recorded for that file and the run continues with the remaining local
\* files: the pipeline is started, and the report of the finished run holds a
\* failure record for that file.
C20_RelPathFailurePerFile ==
  (pcMain # "init" /\ walked.err = "rel") =>
    /\ pcCollector # "off"
    /\ pcMain = "returned" =>
         \E i \in 1..Len(report) :
           report[i].Path = WalkPath(walked.at) /\ ~report[i].Success

\* C21 (as claimed): a walk error reported for an entry below the root does
\* not make buildLocalFileMap return an error and does not abort the run: the
\* pipeline is started and the report is not the single root failure.
C21_EntryWalkErrorTolerated ==
  (pcMain # "init" /\ walked.err = "walk" /\ walked.at \in LocalPaths) =>
    /\ pcCollector # "off"
    /\ report # <<RootFailure>>

\* the remote directories the streamer has asked the store to list
ListedDirs == {listLog[i][1] : i \in 1..Len(listLog)}

\* the directories a complete enumeration lists: the root, and every directory
\* named in a listing that was delivered
RECURSIVE DirsToList(_)
DirsToList(dir) ==
  IF dir \in listFailed \cup NotFoundDirs THEN {dir}
  ELSE LET entries == Listing(dir)
       IN {dir} \cup UNION {DirsToList(Join(dir, entries[i].Name)) :
                              i \in {j \in 1..Len(entries) : entries[j].IsDirectory}}

\* C22: a "not found" answer to a listing request, for the root or for a
\* subdirectory, is an empty listing and not an error: the directory is not
\* counted as failed, nothing is emitted for it, the enumeration goes on with
\* the other directories and ends by closing the stream; when the root is not
\* found every local file is new: enqueued once, never skipped, and reported.
C22_NotFoundIsEmptyListing ==
  /\ \A dir \in NotFoundDirs :
       /\ dir \notin listFailed
       /\ EmittedPaths \cap FilesUnder(dir) = {}
  /\ (pcStreamer = "done" /\ NotFoundDirs # {}) =>
       /\ remoteFiles.closed
       /\ ListedDirs = DirsToList(remoteDir)
       /\ EmittedPaths = FilesListed(remoteDir)
  /\ (Returned /\ remoteDir \in NotFoundDirs) =>
       /\ Len(report) = Cardinality(DOMAIN localStates)
       /\ \A rel \in DOMAIN localStates :
            /\ enqCount[rel] = 1
            /\ Cardinality(RecordsFor(report, rel)) = 1
            /\ SkippedRecordsFor(report, rel) = {}
  /\ ~panicked

C22_Witness ==
  /\ Returned
  /\ NotFoundDirs = {"d1"}
  /\ listFailed = {}
  /\ ListedDirs = {"", "d1", "d2"}
  /\ "d2/f.txt" \in EmittedPaths
  /\ "d1/c.txt" \notin EmittedPaths

\* C23: the transport step reports success only for the statuses 201 and 200;
\* any other status, a transport error, a fired cancellation or a failure to
\* read the local file makes the upload's record a failure carrying the error.
C23_SuccessOnlyOnCreatedOrOk ==
  (callIn # <<>> /\ callOut # <<>> /\ callIn[1] \in UploadAttempts) =>
    LET attempt == callIn[1]
        status == callOut[1]
    IN /\ status.Success => attempt.status \in {201, 200}
       /\ (\/ attempt.status \notin {201, 200}
           \/ attempt.doErr
           \/ attempt.cancelled
           \/ attempt.readErr) =>
            /\ ~status.Success
            /\ status.Error # ""
            /\ ~status.Skipped

C23_Witness ==
  /\ callIn # <<>> /\ callOut # <<>>
  /\ callIn[1] = [readErr |-> FALSE, reqErr |-> FALSE, cancelled |-> FALSE,
                  doErr |-> FALSE, nilResp |-> FALSE, status |-> 204]
  /\ ~callOut[1].Success
  /\ callOut[1].Error = "upload failed with status"

\* the failure records written for rel so far, buffered or collected
FailuresReported(rel) ==
  Cardinality(FailureRecordsFor(results.buf, rel))
    + Cardinality(FailureRecordsFor(allResults, rel))

\* C24: nothing is retried: the transport step is called at most once per
\* enqueued task, a file whose remote path is listed at most once is enqueued
\* at most once and so never again after a failed upload, a failed upload has
\* one failure record, and each remote directory is listed at most once,
\* whatever the answer.
C24_NoRetries ==
  /\ \A rel \in LocalPaths :
       /\ callCount[rel] <= enqCount[rel]
       /\ enqCount[rel] <= 1
       /\ FailuresReported(rel) <= callCount[rel]
       /\ Returned => Cardinality(FailureRecordsFor(report, rel)) <= callCount[rel]
  /\ \A i, j \in 1..Len(listLog) : listLog[i][1] = listLog[j][1] => i = j

C24_Witness ==
  /\ Returned
  /\ enqCount["b.txt"] = 1 /\ callCount["b.txt"] = 1
  /\ Cardinality(FailureRecordsFor(report, "b.txt")) = 1
  /\ "d1" \in listFailed
  /\ Len(listLog) = 3

\* C25: for a returned report the command exits non-zero exactly when some
\* record has Success false, and the three printed counts partition the
\* report: uploaded counts the successes that are not skipped, skipped the
\* skipped ones, failed the failures, and together they count every record.
C25_ExitAndCounts ==
  (callIn # <<>> /\ callOut # <<>> /\ callIn[1] \in Seq(OutcomeRecords)) =>
    LET statuses == callIn[1]
        summary == callOut[1]
        Count(Test(_)) == Cardinality({i \in 1..Len(statuses) : Test(statuses[i])})
        IsUploaded(status) == status.Success /\ ~status.Skipped
        IsSkipped(status) == status.Success /\ status.Skipped
        IsFailed(status) == ~status.Success
    IN /\ summary.exit # 0 <=> \E i \in 1..Len(statuses) : ~statuses[i].Success
       /\ summary.successful = Count(IsUploaded)
       /\ summary.skipped = Count(IsSkipped)
       /\ summary.failed = Count(IsFailed)
       /\ summary.successful + summary.skipped + summary.failed = Len(statuses)

C25_Witness ==
  /\ callIn # <<>> /\ callOut # <<>>
  /\ callIn[1] \in Seq(OutcomeRecords)
  /\ Len(callIn[1]) = 3
  /\ callOut[1] = [successful |-> 1, skipped |-> 1, failed |-> 1, exit |-> 1]

\* the streamer has discovered a file entry and is at its send on remoteFiles
StreamerHolding ==
  ~panicked /\ pcStreamer = "send" /\ toSend # <<>> /\ ~Head(toSend).IsDirectory

StreamerBlocked == StreamerHolding /\ ~ENABLED StreamerSend

\* skipChecker is at its send on uploadTasks and only a worker's receive can
\* let it go on
CheckerWaitsForWorker ==
  ~panicked /\ pcChecker = "sendTask" /\ ~ENABLED CheckerSendTask

\* C26 (as claimed): whatever the progress of the upload workers, the streamer
\* is never kept from emitting its next entry by them: it is never blocked at
\* its send while skipChecker in turn waits for a worker to take a task.
C26_StreamerNeverWaitsForWorkers == ~(StreamerBlocked /\ CheckerWaitsForWorker)

\* C26 (amended): the streamer can emit its next entry exactly while remoteFiles
\* holds fewer entries than its capacity, whatever the workers are doing; stalled
\* workers keep it from emitting only once both remoteFiles and uploadTasks are
\* full and skipChecker holds a further task.
C26_StreamerBlockedOnlyByFullQueues ==
  /\ StreamerHolding =>
       (ENABLED StreamerSend <=> Len(remoteFiles.buf) < RemoteFilesCap)
  /\ (StreamerBlocked /\ CheckerWaitsForWorker) =>
       /\ Len(remoteFiles.buf) = RemoteFilesCap
       /\ Len(uploadTasks.buf) = UploadTasksCap
       /\ pending \in {FileUploadTask(localStates[rel].File) : rel \in DOMAIN localStates}

C26_Witness ==
  /\ StreamerBlocked
  /\ CheckerWaitsForWorker
  /\ ~ctxDone
  /\ BagCardinality(inFlight) = 0
  /\ Idle = numWorkers

\* the step is skipChecker's classification of a remote entry that has a local
\* counterpart: from its receive to one of its two sends
ClassificationStep ==
  pcChecker = "recv" /\ pcChecker' \in {"sendResult", "sendTask"}

\* C27: the local-file-state mapping has a single writer: once the coordinator
\* has built it and started the goroutines, every step that changes the mapping
\* is a classification step of skipChecker, which keeps the keys and each
\* File and changes the state of one file only; no step of the streamer, a
\* worker, the collector or the coordinator changes it.
C27_SingleWriter ==
  [][(pcMain # "init" /\ localStates' # localStates) =>
       /\ ClassificationStep
       /\ DOMAIN localStates' = DOMAIN localStates
       /\ \A rel \in DOMAIN localStates :
            localStates'[rel].File = localStates[rel].File
       /\ Cardinality({rel \in DOMAIN localStates :
                         localStates'[rel] # localStates[rel]}) = 1]_vars

C27_Witness ==
  /\ ~panicked
  /\ pcChecker = "sendResult"
  /\ pcCollector = "run"
  /\ DOMAIN localStates = LocalPaths
  /\ localStates["b.txt"].Checked /\ localStates["b.txt"].Skip
  /\ \E held \in BagToSet(inFlight) : held.task.LocalFile.RelPath = "a.txt"

\* the skipped records and upload tasks skipChecker has produced for rel
ClassifyOutputs(rel) ==
  Cardinality(SkippedRecordsFor(results.buf, rel))
    + Cardinality(SkippedRecordsFor(allResults, rel))
    + (IF pcChecker = "sendResult" /\ pending.Path = WalkPath(rel) THEN 1 ELSE 0)
    + (IF pcChecker = "sendTask" /\ pending.LocalFile.RelPath = rel THEN 1 ELSE 0)
    + enqCount[rel]

\* C28 (as claimed): the classification state of a local file is mutated at
\* most once per run: a classification step is taken only for a file that is
\* not yet checked, and skipChecker produces at most one skipped record or one
\* upload task per local file.
C28_ClassifiedAtMostOnce ==
  /\ [](~panicked => \A rel \in LocalPaths : ClassifyOutputs(rel) <= 1)
  /\ [][ClassificationStep =>
          ~localStates[Head(remoteFiles.buf).Path].Checked]_vars

\* the rules of the list that are redirects with a destination and a source
RedirectRules(rules) ==
  {i \in 1..Len(rules) :
     /\ rules[i].ActionType = 1
     /\ rules[i].ActionParameter1 # ""
     /\ extractSourceURL(rules[i]) # ""}

\* buildRedirectMap was applied to a list of edge rules
RedirectMapBuilt ==
  callIn # <<>> /\ callOut # <<>> /\ callIn[1] \in Seq(EdgeRuleResponse)

\* C29 (as claimed): the map holds exactly the redirect rules with a destination
\* and a source, the source of each of them mapped to that rule's destination
\* and to that rule; both maps have the same keys, and an empty list gives two
\* empty maps.
C29_EveryRedirectRuleHeld ==
  RedirectMapBuilt =>
    LET rules == callIn[1]
        rm == callOut[1]
    IN /\ DOMAIN rm.SourceToDestination =
            {extractSourceURL(rules[i]) : i \in RedirectRules(rules)}
       /\ DOMAIN rm.Rules = DOMAIN rm.SourceToDestination
       /\ \A i \in RedirectRules(rules) :
            /\ rm.SourceToDestination[extractSourceURL(rules[i])] =
                 rules[i].ActionParameter1
            /\ rm.Rules[extractSourceURL(rules[i])] = i
       /\ rules = <<>> => DOMAIN rm.SourceToDestination = {} /\ DOMAIN rm.Rules = {}

\* C29 (amended): the keys of both maps are exactly the sources of the redirect
\* rules with a destination and a source; each source is mapped to the last
\* such rule of the list with that source and to that rule's destination; an
\* empty list gives two empty maps.
C29_LastRedirectRulePerSource ==
  RedirectMapBuilt =>
    LET rules == callIn[1]
        rm == callOut[1]
        Last(source) ==
          CHOOSE i \in RedirectRules(rules) :
            /\ extractSourceURL(rules[i]) = source
            /\ \A j \in RedirectRules(rules) :
                 extractSourceURL(rules[j]) = source => j <= i
    IN /\ DOMAIN rm.SourceToDestination =
            {extractSourceURL(rules[i]) : i \in RedirectRules(rules)}
       /\ DOMAIN rm.Rules = DOMAIN rm.SourceToDestination
       /\ \A source \in DOMAIN rm.Rules :
            /\ rm.Rules[source] = Last(source)
            /\ rm.SourceToDestination[source] =
                 rules[Last(source)].ActionParameter1
       /\ rules = <<>> => DOMAIN rm.SourceToDestination = {} /\ DOMAIN rm.Rules = {}

C29_Witness ==
  /\ RedirectMapBuilt
  /\ Len(callIn[1]) = 2
  /\ RedirectRules(callIn[1]) = {1, 2}
  /\ extractSourceURL(callIn[1][1]) = extractSourceURL(callIn[1][2])
  /\ callIn[1][1].ActionParameter1 = "X"
  /\ callIn[1][2].ActionParameter1 = "Y"
  /\ DOMAIN callOut[1].Rules = {"/a"}
  /\ callOut[1].SourceToDestination["/a"] = "Y"

\* the strings that differ only in the case of their letters
FoldClasses ==
  { {"www", "WWW"},
    {"www.example.com", "WWW.example.com", "WWW.Example.com"},
    {"www.other.org", "WWW.other.org"} }

EqualFold(a, b) == a = b \/ \E class \in FoldClasses : a \in class /\ b \in class

\* the records of the zones, in zone order then record order
RECURSIVE ZoneRecords(_)
ZoneRecords(dnsZones) ==
  IF dnsZones = <<>> THEN <<>>
  ELSE LET zone == Head(dnsZones)
       IN [j \in 1..Len(zone.Records) |-> [zone |-> zone, record |-> zone.Records[j]]]
            \o ZoneRecords(Tail(dnsZones))

\* the name of the record, as given or joined to the zone domain, is one of
\* the hostnames up to case
NamesHostname(entry, hostnames) ==
  \E i \in 1..Len(hostnames) :
    \/ EqualFold(entry.record.Name, hostnames[i].Value)
    \/ /\ entry.record.Name \in Dotless
       /\ entry.record.Name # entry.zone.Domain
       /\ EqualFold(entry.record.Name \o "." \o entry.zone.Domain, hostnames[i].Value)

\* filterMatchingDNSRecords was applied to a zone list and a hostname list
DNSFiltered ==
  callIn # <<>> /\ callOut # <<>> /\ callIn[1] \in DNSZoneLists

\* C30: the result lists, in zone order then record order and each once, exactly
\* the A and CNAME records whose name is a hostname up to case, as given or,
\* for a dotless name other than the zone domain, joined to the zone domain;
\* no record of another type is listed.
C30_MatchingRecordsInOrder ==
  DNSFiltered =>
    LET hostnames == callIn[2]
        result == callOut[1]
        Selected(entry) ==
          entry.record.Type \in {0, 2} /\ NamesHostname(entry, hostnames)
        expected == SelectSeq(ZoneRecords(callIn[1]), Selected)
    IN /\ Len(result) = Len(expected)
       /\ \A k \in 1..Len(result) :
            /\ result[k].Type = (IF expected[k].record.Type = 0 THEN "A" ELSE "CNAME")
            /\ result[k].Value = expected[k].record.Value
            /\ result[k].TTL = expected[k].record.TTL
            /\ result[k].Name \in
                 {expected[k].record.Name,
                  expected[k].record.Name \o "." \o expected[k].zone.Domain}

C30_Witness ==
  /\ DNSFiltered
  /\ callIn[2] = <<[Value |-> "WWW.Example.com"]>>
  /\ Len(callIn[1]) = 2
  /\ Len(callIn[1][1].Records) = 2
  /\ callIn[1][1].Records[1].Type = 1
  /\ callIn[1][1].Records[1].Name = "www.example.com"
  /\ Len(callOut[1]) = 2
  /\ callOut[1][1] = [Name |-> "WWW.example.com", Type |-> "A",
                      Value |-> "1.2.3.4", TTL |-> 300]
  /\ callOut[1][2] = [Name |-> "www.example.com", Type |-> "CNAME",
                      Value |-> "other.org", TTL |-> 600]

\* C31: resources are bounded in every reachable state: at most numWorkers
\* uploads are in flight, the upload queue holds at most UploadTasksCap tasks,
\* and remoteFiles and results hold at most RemoteFilesCap entries and
\* ResultsCap records.
C31_BoundedResources ==
  /\ BagCardinality(inFlight) <= numWorkers
  /\ BagCardinality(inFlight) + wExited <= numWorkers
  /\ Len(uploadTasks.buf) <= UploadTasksCap
  /\ Len(remoteFiles.buf) <= RemoteFilesCap
  /\ Len(results.buf) <= ResultsCap

C31_Witness ==
  /\ BagCardinality(inFlight) = numWorkers
  /\ Len(uploadTasks.buf) = UploadTasksCap
  /\ pcChecker = "sweep"
  /\ Len(results.buf) = 0

\* the records of a report as a bag, without the text of the error
RECURSIVE OutcomeBag(_)
OutcomeBag(statuses) ==
  IF statuses = <<>> THEN EmptyBag
  ELSE SetToBag({[Path |-> Head(statuses).Path, Success |-> Head(statuses).Success,
                  Skipped |-> Head(statuses).Skipped, Reason |-> Head(statuses).Reason]})
         (+) OutcomeBag(Tail(statuses))

\* every upload record of the report has the result uploadResult gives its file
UploadResultsAre(statuses, uploadResult) ==
  \A rel \in LocalPaths :
    \A i \in UploadRecordsFor(statuses, rel) : statuses[i].Error = uploadResult[rel]

\* C32 (as claimed): for the same local tree, the same remote listing and the
\* same per-file upload results, with the listing delivered and no
\* cancellation, the streaming run returns the same bag of records (path,
\* success, skipped, reason) as the eager revision.
C32_EagerEqualsStreaming ==
  (/\ pcMain = "returned" /\ ~panicked /\ ~ctxDone
   /\ listFailed = {} /\ NotFoundDirs = {}) =>
    \A uploadResult \in [LocalPaths -> {"", "error uploading file"}] :
      UploadResultsAre(report, uploadResult) =>
        OutcomeBag(report) =
          OutcomeBag(eagerUploadDirectory(walked, remoteStore, uploadResult))

\* the path of a file below the root: the directory names and the file name
\* joined by "/", without a leading separator
RECURSIVE RelativeTo(_, _)
RelativeTo(dirs, name) ==
  IF dirs = <<>> THEN name
  ELSE Head(dirs) \o <<"/">> \o RelativeTo(Tail(dirs), name)

RECURSIVE ReportBag(_)
ReportBag(statuses) ==
  IF statuses = <<>> THEN EmptyBag
  ELSE SetToBag({Head(statuses)}) (+) ReportBag(Tail(statuses))

\* the root listing the streamer was given: the store's, or nothing when the
\* request failed or was answered "not found"
DeliveredListing ==
  IF listLog # <<>> /\ listLog[1] = <<remoteDir, "ok">> THEN remoteStore ELSE <<>>

\* the bag of records the inputs determine: the inventory's failure, or one
\* record per remote entry that meets a local file and one upload record per
\* local file that no remote entry names
ExpectedBag(walk, listing, uploadResult) ==
  IF walk.err # "" THEN SetToBag({RootFailure})
  ELSE LET files == localFileMap(walk)
           RecordFor(remoteFile) ==
             LET file == files[remoteFile.Name]
                 decision == shouldSkipUpload(file, remoteFile)
             IN IF decision[1] THEN SkippedStatus(file, decision[2])
                ELSE UploadStatus(file, uploadResult[file.RelPath])
           RECURSIVE Streamed(_)
           Streamed(i) ==
             IF i > Len(listing) THEN EmptyBag
             ELSE IF listing[i].Name \in DOMAIN files
             THEN SetToBag({RecordFor(listing[i])}) (+) Streamed(i + 1)
             ELSE Streamed(i + 1)
           unmatched == {rel \in DOMAIN files :
                           \A i \in 1..Len(listing) : listing[i].Name # rel}
       IN Streamed(1) (+)
            SetToBag({UploadStatus(files[rel], uploadResult[rel]) : rel \in unmatched})

\* C34: with a deadline that never fires the returned report is, as a bag, a
\* function of the local inventory, the delivered remote listing and the
\* per-file upload results: every interleaving returns the same bag.
C34_ReportDeterminedByInputs ==
  (pcMain = "returned" /\ ~ctxDone /\ ~panicked) =>
    \A uploadResult \in [LocalPaths -> {"", "error uploading file"}] :
      UploadResultsAre(report, uploadResult) =>
        ReportBag(report) = ExpectedBag(walked, DeliveredListing, uploadResult)

C34_Witness ==
  /\ Returned /\ ~ctxDone
  /\ Len(remoteStore) = 2
  /\ remoteStore[1].Name = "a.txt" /\ remoteStore[2].Name = "b.txt"
  /\ Len(report) = 2
  /\ report[1].Path = WalkPath("b.txt") /\ report[1].Skipped
  /\ report[2].Path = WalkPath("a.txt") /\ ~report[2].Skipped

\* C35: a returned report without a failure record (exit status 0) accounts for
\* every local file of the inventory with a record that says uploaded or
\* skipped, also when the deadline fired during the run.
C35_CleanReportCoversEveryFile ==
  (Returned /\ ~panicked /\ \A i \in 1..Len(report) : report[i].Success) =>
    \A rel \in DOMAIN localStates :
      \E i \in 1..Len(report) :
        report[i].Path = WalkPath(rel) /\ report[i].Success

(***************************************************************************)
(* A run whose deadline may fire at any moment, under fair scheduling of   *)
(* every goroutine.                                                        *)
(***************************************************************************)
CancelSpec ==
  /\ Init
  /\ [][Next]_vars
  /\ WF_vars(Start \/ Return)
  /\ WF_vars(StreamerList \/ StreamerSend \/ StreamerClose)
  /\ WF_vars(CheckerRecv \/ CheckerSendResult \/ CheckerSendTask
               \/ CheckerStreamEnd \/ CheckerSweep \/ CheckerReturn)
  /\ WF_vars(WorkerDequeue \/ WorkerSendResult \/ WorkerExitClosed
               \/ WorkerExitCtx)
  /\ WF_vars(CloseResults)
  /\ WF_vars(CollectorRecv \/ CollectorDone)

\* the streamer has closed the remote stream, skipChecker has returned and
\* closed the upload queue, every uploader has exited, the collector is done
AllFlowsDone ==
  /\ pcStreamer = "done" /\ remoteFiles.closed
  /\ pcChecker = "done" /\ uploadTasks.closed
  /\ wExited = numWorkers
  /\ pcCollector = "done"

\* C36: once the deadline or cancellation has fired, every flow of the run
\* eventually terminates (streamer, classifier, the eight uploaders, the
\* collector); none stays blocked forever on a send nobody will receive.
C36_EveryFlowTerminatesAfterDeadline ==
  (ctxDone /\ pcCollector # "off") ~> (panicked \/ AllFlowsDone)

\* the reasons shouldSkipUpload gives for a skip
SkipReasons == {"checksum match", "size match (no checksum)"}

\* Success iff no error; a skipped record is a success with a skip reason; a
\* record that is not skipped has no reason
WellFormed(status) ==
  /\ status.Success <=> status.Error = ""
  /\ status.Skipped => status.Success /\ status.Reason \in SkipReasons
  /\ ~status.Skipped => status.Reason = ""

\* every record that exists: held by skipChecker, buffered, collected, returned
AllWellFormed(statuses) ==
  \A i \in 1..Len(statuses) : WellFormed(statuses[i])

\* C37: every outcome record is well formed wherever it is (held by
\* skipChecker, buffered in results, collected, returned): Success iff the
\* error is absent, Skipped implies Success and one of the two skip reasons,
\* a record that is not skipped has an empty reason; and shouldSkipUpload
\* returns a non-empty reason exactly when it says skip, as do the Skip and
\* Reason fields written from its result.
\* shouldSkipUpload over every pair of descriptors: a reason exactly with a skip
SkipDecisionsWellFormed ==
  \A localFile \in Descriptors, remoteFile \in Descriptors :
    LET decision == shouldSkipUpload(localFile, remoteFile)
    IN /\ decision[1] <=> decision[2] # ""
       /\ decision[1] => decision[2] \in SkipReasons

C37_RecordsWellFormed ==
  /\ AllWellFormed(results.buf)
  /\ AllWellFormed(allResults)
  /\ AllWellFormed(report)
  /\ pcChecker = "sendResult" => WellFormed(pending)
  /\ \A rel \in DOMAIN localStates :
       /\ localStates[rel].Skip <=> localStates[rel].Reason # ""
       /\ localStates[rel].Skip => localStates[rel].Reason \in SkipReasons
  /\ SkipDecisionsWellFormed

C37_Witness ==
  /\ Returned
  /\ Len(report) = 2
  /\ \E i \in 1..2 : report[i].Skipped /\ report[i].Reason = "checksum match"
  /\ \E i \in 1..2 : ~report[i].Success /\ report[i].Error = "error uploading file"
  /\ \E rel \in DOMAIN localStates : localStates[rel].Reason = "checksum match"

\* the k-th URL of the chain that starts at a source's destination
RECURSIVE Hop(_, _, _)
Hop(m, source, k) == IF k = 1 THEN m[source] ELSE m[Hop(m, source, k - 1)]

\* the chain has a k-th URL: every URL before it is itself a source
HasHop(m, source, k) == \A j \in 1..(k - 1) : Hop(m, source, j) \in DOMAIN m

EndsAt(m, source, k) == HasHop(m, source, k) /\ Hop(m, source, k) \notin DOMAIN m

ReturnsAt(m, source, k) ==
  /\ HasHop(m, source, k)
  /\ \E j \in 1..(k - 1) : Hop(m, source, j) = Hop(m, source, k)

\* what the claim says is reported for a source
ExpectedIssues(m, source) ==
  IF \E k \in 1..maxHops : EndsAt(m, source, k)
  THEN LET k == CHOOSE k \in 1..maxHops : EndsAt(m, source, k)
       IN IF k > 1 THEN <<ChainIssue(source, k)>> ELSE <<>>
  ELSE IF \E k \in 1..maxHops : ReturnsAt(m, source, k)
  THEN LET k == CHOOSE k \in 1..maxHops :
                  /\ ReturnsAt(m, source, k)
                  /\ \A j \in 1..(k - 1) : ~ReturnsAt(m, source, j)
       IN <<LoopIssue(source, Hop(m, source, k))>>
  ELSE <<TooLongIssue(source)>>

\* the issues reported for a source, in the order they were appended
IssuesOf(issues, source) == SelectSeq(issues, LAMBDA issue : issue.Rule = source)

LoopsBounded ==
  LET m == callIn.SourceToDestination
  IN /\ callOut.chainLength <= maxHops + 1
     /\ Cardinality(callOut.visited) <= maxHops
     /\ \A source \in DOMAIN m : Len(IssuesOf(callOut.issues, source)) <= 1
     /\ \A i \in 1..Len(callOut.issues) : callOut.issues[i].Rule \in DOMAIN m
     /\ callOut.pc = "done" =>
          \A source \in DOMAIN m :
            IssuesOf(callOut.issues, source) = ExpectedIssues(m, source)

\* C38: checkRedirectLoops terminates for every redirect map and follows at
\* most 10 hops per source; for each source it reports at most one issue: the
\* loop error when the chain returns to a visited URL within 10 hops, the
\* too-long error when the chain exceeds 10 hops, the chain warning when the
\* chain ends after more than one hop, nothing when the destination is not a
\* source.
C38_LoopsTerminateOneIssuePerSource ==
  []LoopsBounded /\ <>(callOut.pc = "done")

C38_Witness ==
  /\ callOut.pc = "done"
  /\ callIn.SourceToDestination =
       [i \in 0..maxHops |-> IF i < maxHops THEN i + 1 ELSE maxHops]
  /\ \E i \in 1..Len(callOut.issues) : callOut.issues[i] = TooLongIssue(0)
  /\ \E i \in 1..Len(callOut.issues) : callOut.issues[i] = LoopIssue(1, maxHops)

====
